---------------------------- MODULE Spec2Model ----------------------------
(***************************************************************************)
(* Smart tab switching of arc-style-workspaces: the URL matcher            *)
(* (services/tab-matcher.js), the tab cache (services/tab-cache.js), the   *)
(* smart switcher (services/smart-switcher.js) and the wiring of the       *)
(* background service worker (background.js).                              *)
(*                                                                         *)
(* Strings are sequences of tokens.  A URL string is kept in parsed form:  *)
(* scheme, host, path (one token per character), query (a sequence of      *)
(* key/value pairs) and hash; a string that `new URL` rejects keeps its    *)
(* text in `raw`.  Str(u) is the string itself, token by token.            *)
(***************************************************************************)
EXTENDS Integers, Sequences, FiniteSets, TLC

-----------------------------------------------------------------------------
(* Bounds of the model *)

\* SpecCache: the number of TabCache calls in a sequence
MaxCalls == 4

\* Spec: tab ids the browser hands out, tab events awaiting delivery, clock
\* ticks, things the user does (clicks on favorites, actions in the browser)
MaxTabId == 3
MaxEvents == 2
MaxTicks == 1
MaxUserActions == 3
\* the clicks and actions of the user in SpecSwitch
MaxSwitchActions == 2

-----------------------------------------------------------------------------
(* URL strings *)

Url(scheme, host, path, query, hash) ==
    [scheme |-> scheme, host |-> host, path |-> path, query |-> query,
     hash |-> hash, raw |-> ""]

\* undefined / "" : a falsy url
NoUrl == [scheme |-> "", host |-> "", path |-> <<>>, query |-> <<>>,
          hash |-> "", raw |-> ""]

\* a non-empty string that `new URL` throws on
RawUrl(text) == [scheme |-> "", host |-> "", path |-> <<>>, query |-> <<>>,
                 hash |-> "", raw |-> text]

Falsy(url) == url = NoUrl
Parses(url) == url.scheme # ""

UrlMail   == Url("https:", "m.com", <<"/", "m">>, <<>>, "")
UrlInbox  == Url("https:", "m.com", <<"/", "m", "/", "a">>, <<>>, "")
UrlInboxT == Url("https:", "m.com", <<"/", "m", "/", "a">>,
                 << [k |-> "utm_source", v |-> "x"] >>, "")
UrlSent   == Url("https:", "m.com", <<"/", "m", "/", "a">>, <<>>, "s")
UrlDocs   == Url("https:", "m.com", <<"/", "x">>, <<>>, "")
UrlNews   == Url("https:", "x.org", <<"/">>, <<>>, "")
UrlChrome == Url("chrome:", "newtab", <<"/">>, <<>>, "")

\* String.prototype.toLowerCase on a host name
ToLowerCase(h) == CASE h = "M.COM" -> "m.com"
                    [] h = "X.ORG" -> "x.org"
                    [] OTHER -> h

\* the string, token by token
Str(url) ==
    IF ~Parses(url)
    THEN (IF url.raw = "" THEN <<>> ELSE <<url.raw>>)
    ELSE LET RECURSIVE Search(_)
             Search(q) ==
                 IF q = <<>> THEN <<>>
                 ELSE <<Head(q).k, "=", Head(q).v>> \o
                      (IF Tail(q) = <<>> THEN <<>> ELSE <<"&">> \o Search(Tail(q)))
         IN  <<url.scheme, "//", url.host>> \o url.path
             \o (IF url.query = <<>> THEN <<>> ELSE <<"?">> \o Search(url.query))
             \o (IF url.hash = "" THEN <<>> ELSE <<"#", url.hash>>)

StartsWith(s, p) == Len(p) <= Len(s) /\ SubSeq(s, 1, Len(p)) = p

\* new URL(string): the parts of the string; a string without "//" after its
\* scheme does not parse, and an empty path reads as "/"
ParseUrl(s) ==
    IF s = <<>> THEN NoUrl
    ELSE IF Len(s) < 3 \/ s[2] # "//" THEN RawUrl(s[1])
    ELSE LET First(token) ==
                 LET at == {i \in 4..Len(s) : s[i] = token}
                 IN  IF at = {} THEN Len(s) + 1
                     ELSE CHOOSE i \in at : \A j \in at : i <= j
             hashAt  == First("#")
             queryAt == IF First("?") < hashAt THEN First("?") ELSE hashAt
             RECURSIVE Params(_)
             Params(t) ==
                 IF Len(t) < 3 THEN <<>>
                 ELSE <<[k |-> t[1], v |-> t[3]]>> \o Params(SubSeq(t, 5, Len(t)))
             pathname == SubSeq(s, 4, queryAt - 1)
         IN  Url(s[1], s[3],
                 IF pathname = <<>> THEN <<"/">> ELSE pathname,
                 Params(SubSeq(s, queryAt + 1, hashAt - 1)),
                 IF hashAt + 1 <= Len(s) THEN s[hashAt + 1] ELSE "")

-----------------------------------------------------------------------------
(* services/tab-matcher.js *)

MATCH_MODE == [exact |-> "exact", prefix |-> "prefix", domain |-> "domain",
               pattern |-> "pattern"]

trackingParams == {"utm_source", "utm_medium", "utm_campaign", "utm_term",
                   "utm_content", "fbclid", "gclid", "msclkid", "mc_cid",
                   "mc_eid", "_ga", "_gl", "ref", "source"}

IsNotTracking(p) == p.k \notin trackingParams

\* a canonicalizer that leaves the query string as it is
canonicalizeUrlWith_KeepsQuery(url, stripTracking, stripHash, stripQuery) ==
    IF ~Parses(url) THEN url
    ELSE [scheme |-> url.scheme, host |-> ToLowerCase(url.host),
          path |-> IF Len(url.path) > 1 /\ url.path[Len(url.path)] = "/"
                   THEN SubSeq(url.path, 1, Len(url.path) - 1) ELSE url.path,
          query |-> url.query, hash |-> IF stripHash THEN "" ELSE url.hash,
          raw |-> ""]

canonicalizeUrlWith(url, stripTracking, stripHash, stripQuery) ==
    IF ~Parses(url) THEN url
    ELSE LET kept     == IF stripTracking
                         THEN SelectSeq(url.query, IsNotTracking)
                         ELSE url.query
             search   == IF stripQuery THEN <<>> ELSE kept
             hash     == IF stripHash THEN "" ELSE url.hash
             pathname == IF url.path = <<>> THEN <<"/">> ELSE url.path
             replaced == IF pathname[Len(pathname)] = "/"
                         THEN SubSeq(pathname, 1, Len(pathname) - 1)
                         ELSE pathname
             path     == IF replaced = <<>> THEN <<"/">> ELSE replaced
         IN  [scheme |-> url.scheme, host |-> ToLowerCase(url.host),
              path |-> path, query |-> search, hash |-> hash, raw |-> ""]

\* the default options: stripTracking = true, stripHash = stripQuery = false
canonicalizeUrl(url) == canonicalizeUrlWith(url, TRUE, FALSE, FALSE)

\* a regular expression source: absent (null), or present and then either
\* rejected by `new RegExp` or the set of strings it tests true on
NoPattern == [present |-> FALSE, valid |-> FALSE, accepts |-> {}]

\* a matcher that knows the exact mode only
matchesUrl_ExactOnly(tabUrl, favoriteUrl, matchMode, pattern) ==
    /\ ~Falsy(tabUrl) /\ ~Falsy(favoriteUrl)
    /\ canonicalizeUrl(tabUrl) = canonicalizeUrl(favoriteUrl)

matchesUrl(tabUrl, favoriteUrl, matchMode, pattern) ==
    IF Falsy(tabUrl) \/ Falsy(favoriteUrl) THEN FALSE
    ELSE LET canonicalTab == canonicalizeUrl(tabUrl)
             canonicalFav == canonicalizeUrl(favoriteUrl)
         IN  CASE matchMode = MATCH_MODE.exact ->
                    canonicalTab = canonicalFav
               [] matchMode = MATCH_MODE.prefix ->
                    StartsWith(Str(canonicalTab), Str(canonicalFav))
               [] matchMode = MATCH_MODE.domain ->
                    /\ Parses(tabUrl) /\ Parses(favoriteUrl)
                    /\ ToLowerCase(tabUrl.host) = ToLowerCase(favoriteUrl.host)
               [] matchMode = MATCH_MODE.pattern ->
                    /\ pattern.present /\ pattern.valid
                    /\ canonicalTab \in pattern.accepts
               [] OTHER -> FALSE

\* the score times 1000000, so that lastAccessed / 1000000 stays an integer
calculateMatchScore(tab, currentWindowId, favoriteUrl, matchMode) ==
    (CASE matchMode = MATCH_MODE.exact -> 1000
       [] matchMode = MATCH_MODE.prefix -> 500
       [] matchMode = MATCH_MODE.domain -> 100
       [] OTHER -> 0) * 1000000
    + (IF tab.windowId = currentWindowId THEN 100 ELSE 0) * 1000000
    + tab.lastAccessed

\* Array.prototype.sort is stable: descending by score, ties in input order
rankMatches(tabs, currentWindowId, favoriteUrl, matchMode) ==
    LET score(t) == calculateMatchScore(t, currentWindowId, favoriteUrl, matchMode)
        Insert(sorted, t) ==
            LET after == {i \in 1..Len(sorted) : score(sorted[i]) >= score(t)}
                k == IF after = {} THEN 0
                     ELSE CHOOSE i \in after : \A j \in after : j <= i
            IN  SubSeq(sorted, 1, k) \o <<t>> \o SubSeq(sorted, k + 1, Len(sorted))
        RECURSIVE Sort(_, _)
        Sort(sorted, rest) ==
            IF rest = <<>> THEN sorted
            ELSE Sort(Insert(sorted, Head(rest)), Tail(rest))
    IN  Sort(<<>>, tabs)

-----------------------------------------------------------------------------
(* Tabs *)

\* undefined: no tab
NoTab == [id |-> 0, url |-> NoUrl, windowId |-> 0, active |-> FALSE,
          lastAccessed |-> 0]

-----------------------------------------------------------------------------
(* JavaScript Map *)

MapHas(m, k) == k \in DOMAIN m
MapSet(m, k, v) == [x \in (DOMAIN m) \cup {k} |-> IF x = k THEN v ELSE m[x]]
MapDelete(m, k) == [x \in (DOMAIN m) \ {k} |-> m[x]]
EmptyMap == [x \in {} |-> {}]

\* byId keeps insertion order, which getAll exposes: a sequence of entries
OrdIndex(entries, key) ==
    LET hit == {i \in 1..Len(entries) : entries[i].key = key}
    IN  IF hit = {} THEN 0 ELSE CHOOSE i \in hit : TRUE
OrdGet(entries, key) ==
    IF OrdIndex(entries, key) = 0 THEN NoTab ELSE entries[OrdIndex(entries, key)].tab
OrdSet(entries, key, tab) ==
    IF OrdIndex(entries, key) = 0
    THEN Append(entries, [key |-> key, tab |-> tab])
    ELSE [entries EXCEPT ![OrdIndex(entries, key)] = [key |-> key, tab |-> tab]]
OrdDelete(entries, key) ==
    LET Keep(e) == e.key # key IN SelectSeq(entries, Keep)

-----------------------------------------------------------------------------
(* services/tab-cache.js *)

NewTabCache == [byId |-> <<>>, byUrl |-> EmptyMap, byWindow |-> EmptyMap]

\* add that keeps a list of entries instead of a Map: every call appends
TabCacheAdd_Appends(c, tab) ==
    [c EXCEPT !.byId = Append(c.byId, [key |-> tab.id, tab |-> tab])]

TabCacheAdd(c, tab) ==
    IF tab = NoTab \/ tab.id = 0 THEN c
    ELSE LET normalized == canonicalizeUrl(tab.url)
             urlSet == IF MapHas(c.byUrl, normalized) THEN c.byUrl[normalized] ELSE {}
             winSet == IF MapHas(c.byWindow, tab.windowId)
                       THEN c.byWindow[tab.windowId] ELSE {}
         IN  [byId |-> OrdSet(c.byId, tab.id, tab),
              byUrl |-> IF ~Falsy(tab.url)
                        THEN MapSet(c.byUrl, normalized, urlSet \cup {tab.id})
                        ELSE c.byUrl,
              byWindow |-> IF tab.windowId # 0
                           THEN MapSet(c.byWindow, tab.windowId, winSet \cup {tab.id})
                           ELSE c.byWindow]

\* remove that forgets the primary map (no byId.delete)
TabCacheRemove_KeepsEntry(c, tabId) ==
    LET tab == OrdGet(c.byId, tabId)
        normalized == canonicalizeUrl(tab.url)
    IN  IF tab = NoTab \/ Falsy(tab.url) \/ ~MapHas(c.byUrl, normalized) THEN c
        ELSE [c EXCEPT !.byUrl = MapSet(c.byUrl, normalized,
                                        c.byUrl[normalized] \ {tabId})]

TabCacheRemove(c, tabId) ==
    LET tab == OrdGet(c.byId, tabId)
        normalized == canonicalizeUrl(tab.url)
        IndexDelete(index, k) ==
            IF ~MapHas(index, k) THEN index
            ELSE IF index[k] \ {tabId} = {} THEN MapDelete(index, k)
            ELSE MapSet(index, k, index[k] \ {tabId})
    IN  IF tab = NoTab THEN c
        ELSE [byId |-> OrdDelete(c.byId, tabId),
              byUrl |-> IF ~Falsy(tab.url)
                        THEN IndexDelete(c.byUrl, normalized) ELSE c.byUrl,
              byWindow |-> IF tab.windowId # 0
                           THEN IndexDelete(c.byWindow, tab.windowId)
                           ELSE c.byWindow]

\* update that writes the primary map in place whatever changed
TabCacheUpdate_InPlace(c, tabId, changeUrl, tab) ==
    [c EXCEPT !.byId = OrdSet(c.byId, tabId, tab)]

\* changeUrl is changeInfo.url (NoUrl when the change carries no url)
TabCacheUpdate(c, tabId, changeUrl, tab) ==
    IF ~Falsy(changeUrl)
    THEN TabCacheAdd(TabCacheRemove(c, tabId), tab)
    ELSE [c EXCEPT !.byId = OrdSet(c.byId, tabId, tab)]

TabCacheGet(c, tabId) == OrdGet(c.byId, tabId)

\* the tabs findByUrl(url) returns (windowId = null), as a set
TabCacheFindByUrl(c, url) ==
    LET normalized == canonicalizeUrl(url)
        tabIds == IF MapHas(c.byUrl, normalized) THEN c.byUrl[normalized] ELSE {}
    IN  {OrdGet(c.byId, id) : id \in tabIds} \ {NoTab}

\* findByUrl(url, windowId)
TabCacheFindByUrlIn(c, url, windowId) ==
    LET normalized == canonicalizeUrl(url)
        tabIds == IF MapHas(c.byUrl, normalized) THEN c.byUrl[normalized] ELSE {}
        windowTabs == IF MapHas(c.byWindow, windowId) THEN c.byWindow[windowId] ELSE {}
    IN  {OrdGet(c.byId, id) : id \in tabIds \cap windowTabs} \ {NoTab}

TabCacheGetByWindow(c, windowId) ==
    LET tabIds == IF MapHas(c.byWindow, windowId) THEN c.byWindow[windowId] ELSE {}
    IN  {OrdGet(c.byId, id) : id \in tabIds} \ {NoTab}

\* Array.from(byId.values()): insertion order
TabCacheGetAll(c) == [i \in 1..Len(c.byId) |-> c.byId[i].tab]

-----------------------------------------------------------------------------
(* background.js: the persisted state and updateFavorite *)

\* preferences: "" and 0 stand for an absent field
NoPreferences == [present |-> FALSE, defaultMatchMode |-> "", multiWindowBehavior |-> "",
                  enableCycleOnReclick |-> FALSE, cycleCooldown |-> 0]

\* state = null
NoState == [loaded |-> FALSE, preferences |-> NoPreferences, favorites |-> <<>>]

\* state.favorites.find(f => f.id === favoriteId); the ids of the model are there
FavoriteById(st, favoriteId) ==
    st.favorites[CHOOSE i \in DOMAIN st.favorites : st.favorites[i].id = favoriteId]

\* updates = {lastBoundTabId, lastBoundAt}; 0 stands for null
\* a favorite that is bound keeps its binding: the first write wins
updateFavorite_FirstWins(st, favoriteId, lastBoundTabId, lastBoundAt) ==
    IF ~st.loaded THEN st
    ELSE [st EXCEPT !.favorites =
            [i \in DOMAIN st.favorites |->
                IF st.favorites[i].id = favoriteId /\ st.favorites[i].lastBoundTabId = 0
                THEN [st.favorites[i] EXCEPT !.lastBoundTabId = lastBoundTabId,
                                             !.lastBoundAt = lastBoundAt]
                ELSE st.favorites[i]]]

\* updateFavorite that keeps a tab for one favorite: it unbinds every other
\* favorite bound to the tab
updateFavorite_Exclusive(st, favoriteId, lastBoundTabId, lastBoundAt) ==
    IF ~st.loaded THEN st
    ELSE [st EXCEPT !.favorites =
            [i \in DOMAIN st.favorites |->
                IF st.favorites[i].id = favoriteId
                THEN [st.favorites[i] EXCEPT !.lastBoundTabId = lastBoundTabId,
                                             !.lastBoundAt = lastBoundAt]
                ELSE IF lastBoundTabId # 0 /\ st.favorites[i].lastBoundTabId = lastBoundTabId
                THEN [st.favorites[i] EXCEPT !.lastBoundTabId = 0, !.lastBoundAt = 0]
                ELSE st.favorites[i]]]

updateFavorite(st, favoriteId, lastBoundTabId, lastBoundAt) ==
    IF ~st.loaded THEN st
    ELSE [st EXCEPT !.favorites =
            [i \in DOMAIN st.favorites |->
                IF st.favorites[i].id = favoriteId
                THEN [st.favorites[i] EXCEPT !.lastBoundTabId = lastBoundTabId,
                                             !.lastBoundAt = lastBoundAt]
                ELSE st.favorites[i]]]

-----------------------------------------------------------------------------
(* The browser: chrome.tabs and chrome.windows *)

TabEvent(type, tabId, changeUrl, tab) ==
    [type |-> type, tabId |-> tabId, changeUrl |-> changeUrl, tab |-> tab]

Deactivated(live, windowId) ==
    [i \in DOMAIN live |-> IF live[i].windowId = windowId
                           THEN [live[i] EXCEPT !.active = FALSE] ELSE live[i]]

\* chrome.tabs.create
BrowserCreate(live, tab) ==
    LET base == IF tab.active THEN Deactivated(live, tab.windowId) ELSE live
    IN  [i \in (DOMAIN live) \cup {tab.id} |-> IF i = tab.id THEN tab ELSE base[i]]

\* chrome.tabs.update(id, {active: true})
BrowserActivate(live, id, t) ==
    [i \in DOMAIN live |->
        IF i = id THEN [live[i] EXCEPT !.active = TRUE, !.lastAccessed = t]
        ELSE IF live[i].windowId = live[id].windowId
        THEN [live[i] EXCEPT !.active = FALSE] ELSE live[i]]

\* the tabs that may become active when tab id leaves its window (0: none)
Heirs(live, id) ==
    LET others == {i \in (DOMAIN live) \ {id} : live[i].windowId = live[id].windowId}
    IN  IF live[id].active /\ others # {} THEN others ELSE {0}

\* the user closes a tab
BrowserRemove(live, id, heir, t) ==
    [i \in (DOMAIN live) \ {id} |->
        IF i = heir THEN [live[i] EXCEPT !.active = TRUE, !.lastAccessed = t]
        ELSE live[i]]

\* chrome.tabs.move(id, {windowId, index: -1})
BrowserMove(live, id, windowId, heir, t) ==
    IF live[id].windowId = windowId THEN live
    ELSE [i \in DOMAIN live |->
            IF i = id THEN [live[i] EXCEPT !.windowId = windowId, !.active = FALSE]
            ELSE IF i = heir THEN [live[i] EXCEPT !.active = TRUE, !.lastAccessed = t]
            ELSE live[i]]

-----------------------------------------------------------------------------
(* services/smart-switcher.js *)

MULTI_WINDOW_BEHAVIOR == [focus |-> "focus", adopt |-> "adopt"]

IsInternal(url) == url.scheme = "chrome:" \/ url.scheme = "edge:"

\* favorite.matchMode || state?.preferences?.defaultMatchMode || MATCH_MODE.PREFIX
effectiveMode(st, favorite) ==
    IF favorite.matchMode # "" THEN favorite.matchMode
    ELSE IF st.loaded /\ st.preferences.present /\ st.preferences.defaultMatchMode # ""
    THEN st.preferences.defaultMatchMode
    ELSE MATCH_MODE.prefix

\* no cached tab is a candidate
findMatches_None(cache, st, favorite, currentWindow) == <<>>

findMatches(cache, st, favorite, currentWindow) ==
    IF ~st.loaded THEN <<>>
    ELSE LET mode == effectiveMode(st, favorite)
             Matches(tab) == /\ ~IsInternal(tab.url)
                             /\ matchesUrl(tab.url, favorite.url, mode,
                                           favorite.matchPattern)
         IN  rankMatches(SelectSeq(TabCacheGetAll(cache), Matches), currentWindow,
                         favorite.url, mode)

\* a binding to a tab at a chrome:// or edge:// url is checked like any other
isValidBinding_Internal(st, tab, favorite) ==
    IF tab = NoTab \/ Falsy(tab.url) THEN FALSE
    ELSE IF ~st.loaded THEN FALSE
    ELSE matchesUrl(tab.url, favorite.url, effectiveMode(st, favorite),
                    favorite.matchPattern)

\* the binding is checked against the default mode when there is no state
isValidBinding_NoGuard(st, tab, favorite) ==
    IF tab = NoTab \/ Falsy(tab.url) THEN FALSE
    ELSE IF IsInternal(tab.url) THEN FALSE
    ELSE matchesUrl(tab.url, favorite.url, effectiveMode(st, favorite),
                    favorite.matchPattern)

\* a switcher that trusts no binding
isValidBinding_Never(st, tab, favorite) == FALSE

isValidBinding(st, tab, favorite) ==
    IF tab = NoTab \/ Falsy(tab.url) THEN FALSE
    ELSE IF IsInternal(tab.url) THEN FALSE
    ELSE IF ~st.loaded THEN FALSE
    ELSE matchesUrl(tab.url, favorite.url, effectiveMode(st, favorite),
                    favorite.matchPattern)

\* prefs.cycleCooldown || 1500
cycleCooldown(st) ==
    IF st.preferences.cycleCooldown # 0 THEN st.preferences.cycleCooldown ELSE 1500

\* a click exactly one cooldown after the previous one is a reclick
detectReclick_Inclusive(st, clicks, favoriteId, t) ==
    /\ st.loaded /\ st.preferences.present /\ st.preferences.enableCycleOnReclick
    /\ clicks[favoriteId] # 0
    /\ t - clicks[favoriteId] <= cycleCooldown(st)

\* what detectReclick returns
detectReclick(st, clicks, favoriteId, t) ==
    IF ~st.loaded \/ ~st.preferences.present THEN FALSE
    ELSE IF ~st.preferences.enableCycleOnReclick THEN FALSE
    ELSE IF clicks[favoriteId] = 0 THEN FALSE
    ELSE t - clicks[favoriteId] < cycleCooldown(st)

\* recentClicks after detectReclick
detectReclickRecords(st, clicks, favoriteId, t) ==
    IF ~st.loaded \/ ~st.preferences.present THEN clicks
    ELSE IF ~st.preferences.enableCycleOnReclick THEN clicks
    ELSE [clicks EXCEPT ![favoriteId] = t]

\* the first match, whichever is active
getNextMatch_First(matches, currentWindow) == matches[1]

getNextMatch(matches, currentWindow) ==
    LET actives == {i \in 1..Len(matches) :
                       matches[i].active /\ matches[i].windowId = currentWindow}
        activeIndex == IF actives = {} THEN 0
                       ELSE CHOOSE i \in actives : \A j \in actives : i <= j
    IN  IF activeIndex = 0 THEN matches[1]
        ELSE matches[(activeIndex % Len(matches)) + 1]

\* a switcher that does not write the binding
updateBinding_Skip(st, favoriteId, tabId, t) == st

updateBinding(st, favoriteId, tabId, t) == updateFavorite(st, favoriteId, tabId, t)

\* the stale binding is left as it is
clearBinding_Keep(st, favoriteId) == st

\* clearBinding that sets lastBoundTabId to null and keeps lastBoundAt
clearBinding_KeepsTime(st, favoriteId) ==
    IF ~st.loaded THEN st
    ELSE updateFavorite(st, favoriteId, 0, FavoriteById(st, favoriteId).lastBoundAt)

clearBinding(st, favoriteId) == updateFavorite(st, favoriteId, 0, 0)

\* a sweep that clears nothing
clearBindingsForTab_None(st, tabId) == st

clearBindingsForTab(st, tabId) ==
    LET RECURSIVE Sweep(_, _)
        Sweep(cur, favorites) ==
            IF favorites = <<>> THEN cur
            ELSE Sweep(IF Head(favorites).lastBoundTabId = tabId
                       THEN clearBinding(cur, Head(favorites).id) ELSE cur,
                       Tail(favorites))
    IN  IF ~st.loaded THEN st ELSE Sweep(st, st.favorites)

\* a sweep that clears every binding to the tab
revalidateBindingsForTab_ClearAll(st, tabId, tab) == clearBindingsForTab(st, tabId)

revalidateBindingsForTab(st, tabId, tab) ==
    LET RECURSIVE Sweep(_, _)
        Sweep(cur, favorites) ==
            IF favorites = <<>> THEN cur
            ELSE Sweep(IF /\ Head(favorites).lastBoundTabId = tabId
                          /\ ~isValidBinding(cur, tab, Head(favorites))
                       THEN clearBinding(cur, Head(favorites).id) ELSE cur,
                       Tail(favorites))
    IN  IF ~st.loaded THEN st ELSE Sweep(st, st.favorites)

(***************************************************************************)
(* The switcher acts on a machine m: the fields tabCache, state,           *)
(* recentClicks, tabs, nextTabId, currentWindowId and events are the       *)
(* variables of these names, log is the sequence of the calls of           *)
(* chrome.tabs and chrome.windows the switcher has issued, and stored the  *)
(* sequence of the binding writes it has awaited.                          *)
(***************************************************************************)

\* a call is issued: the tab or window it is about, the properties it is
\* given, the favorites as they are persisted at that moment, and whether the
\* call rejects
Issue(m, name, arg, props, rejected) ==
    [m EXCEPT !.log = Append(m.log, [call |-> name, arg |-> arg, props |-> props,
                                     favorites |-> m.state.favorites,
                                     rejected |-> rejected])]

\* the call issued last rejected: the await throws
Rejected(m) == m.log # <<>> /\ m.log[Len(m.log)].rejected

\* the calls of the host API that may reject ("": none does)
HostCalls == {"tabs.create", "windows.update", "tabs.move", "tabs.update"}

\* the background option is ignored: the tab is created active
createdTab_Foreground(m, url, background, t) ==
    [id |-> m.nextTabId, url |-> url, windowId |-> m.currentWindowId,
     active |-> TRUE, lastAccessed |-> t]

\* a tab created without its url
createdTab_Blank(m, url, background, t) ==
    [id |-> m.nextTabId, url |-> NoUrl, windowId |-> m.currentWindowId,
     active |-> ~background, lastAccessed |-> t]

\* the tab chrome.tabs.create resolves to
createdTab(m, url, background, t) ==
    [id |-> m.nextTabId, url |-> url, windowId |-> m.currentWindowId,
     active |-> ~background, lastAccessed |-> t]

\* the created tab reaches the cache with its creation event only
openNew_NoCache(m, url, background, t, placeholder, fails) ==
    LET tab == createdTab(m, url, background, t)
        issued == Issue(m, "tabs.create", tab.id,
                        [url |-> url, active |-> ~background,
                         windowId |-> m.currentWindowId],
                        fails = "tabs.create")
    IN  IF Rejected(issued) THEN issued
        ELSE [issued EXCEPT
                  !.tabs = BrowserCreate(m.tabs, tab),
                  !.nextTabId = m.nextTabId + 1,
                  !.events = m.events \o <<TabEvent("created", tab.id, NoUrl, tab)>>]

\* placeholder: the creation event reports the tab before its url is known, and
\* an update event with the url follows
openNew(m, url, background, t, placeholder, fails) ==
    LET tab == createdTab(m, url, background, t)
        issued == Issue(m, "tabs.create", tab.id,
                        [url |-> url, active |-> ~background,
                         windowId |-> m.currentWindowId],
                        fails = "tabs.create")
    IN  IF Rejected(issued) THEN issued
        ELSE [issued EXCEPT
                  !.tabs = BrowserCreate(m.tabs, tab),
                  !.nextTabId = m.nextTabId + 1,
                  !.events = m.events \o
                      (IF placeholder
                       THEN <<TabEvent("created", tab.id, NoUrl, [tab EXCEPT !.url = NoUrl]),
                              TabEvent("updated", tab.id, url, tab)>>
                       ELSE <<TabEvent("created", tab.id, NoUrl, tab)>>),
                  !.tabCache = TabCacheAdd(m.tabCache, tab)]

multiWindowBehavior(st, favorite) ==
    IF favorite.multiWindowBehavior # "" THEN favorite.multiWindowBehavior
    ELSE IF st.preferences.multiWindowBehavior # "" THEN st.preferences.multiWindowBehavior
    ELSE MULTI_WINDOW_BEHAVIOR.focus

\* a focusTab that issues no call
focusTab_Idle(m, tab, favorite, t, heir, fails) == m

\* the tab is activated where it is, whatever the window and the preferences
focusTab_ActivateOnly(m, tab, favorite, t, heir, fails) ==
    LET issued == Issue(m, "tabs.update", tab.id, [active |-> TRUE],
                        fails = "tabs.update" \/ tab.id \notin DOMAIN m.tabs)
    IN  IF Rejected(issued) THEN issued
        ELSE [issued EXCEPT !.tabs = BrowserActivate(m.tabs, tab.id, t)]

\* focusTab: the machine after it.  A call about a tab or a window that is not
\* open any more rejects, and so does the call named by fails
focusTab(m, tab, favorite, t, heir, fails) ==
    LET open == tab.id \in DOMAIN m.tabs
        windowOpen == \E i \in DOMAIN m.tabs : m.tabs[i].windowId = tab.windowId
        simple == ~m.state.loaded \/ ~m.state.preferences.present
        behavior == multiWindowBehavior(m.state, favorite)
        elsewhere == ~simple /\ tab.windowId # m.currentWindowId
        \* chrome.windows.update(tab.windowId, {focused: true})
        m1 == IF elsewhere /\ behavior = MULTI_WINDOW_BEHAVIOR.focus
              THEN LET issued == Issue(m, "windows.update", tab.windowId,
                                       [focused |-> TRUE],
                                       fails = "windows.update" \/ ~windowOpen)
                   IN  IF Rejected(issued) THEN issued
                       ELSE [issued EXCEPT !.currentWindowId = tab.windowId]
              ELSE m
        \* chrome.tabs.move(tab.id, {windowId: currentWindow.id, index: -1})
        m2 == IF ~Rejected(m1) /\ elsewhere /\ behavior = MULTI_WINDOW_BEHAVIOR.adopt
              THEN LET issued == Issue(m1, "tabs.move", tab.id,
                                       [windowId |-> m.currentWindowId, index |-> -1],
                                       fails = "tabs.move" \/ ~open)
                   IN  IF Rejected(issued) THEN issued
                       ELSE [issued EXCEPT !.tabs = BrowserMove(m.tabs, tab.id,
                                                                m.currentWindowId, heir, t)]
              ELSE m1
    IN  IF Rejected(m2) THEN m2
        ELSE \* chrome.tabs.update(tab.id, {active: true})
             LET issued == Issue(m2, "tabs.update", tab.id, [active |-> TRUE],
                                 fails = "tabs.update" \/ ~open)
             IN  IF Rejected(issued) THEN issued
                 ELSE [issued EXCEPT !.tabs = BrowserActivate(m2.tabs, tab.id, t)]

\* await this.updateBinding(favorite.id, tabId): the state after it, and the
\* write noted in m.stored
Binds(m, favoriteId, tabId, t) ==
    [m EXCEPT !.state = updateBinding(m.state, favoriteId, tabId, t),
              !.stored = Append(m.stored, [favoriteId |-> favoriteId, tabId |-> tabId])]

\* await this.clearBinding(favorite.id)
Clears(m, favoriteId) ==
    [m EXCEPT !.state = clearBinding(m.state, favoriteId),
              !.stored = Append(m.stored, [favoriteId |-> favoriteId, tabId |-> 0])]

\* the rejection is caught inside switch, which resolves as if it had focused
Outcome_Swallows(m, action, tabId, url) ==
    [m |-> m, action |-> IF action = "rejected" THEN "focused" ELSE action,
     tabId |-> tabId, url |-> url]

Outcome(m, action, tabId, url) == [m |-> m, action |-> action, tabId |-> tabId, url |-> url]

\* switch(favorite, modifiers): the machine after it and what it resolves to;
\* action "rejected" when a call rejected: the promise of switch rejects
switch(m, favorite, shift, cmd, alt, t, placeholder, heir, fails) ==
    IF shift
    THEN LET m1 == openNew(m, favorite.url, FALSE, t, placeholder, fails)
             m2 == Binds(m1, favorite.id, m.nextTabId, t)
         IN  IF Rejected(m1) THEN Outcome(m1, "rejected", 0, NoUrl)
             ELSE Outcome(m2, "created", m.nextTabId, favorite.url)
    ELSE
    LET found == findMatches(m.tabCache, m.state, favorite, m.currentWindowId)
        cachedTab == TabCacheGet(m.tabCache, favorite.lastBoundTabId)
        bound == favorite.lastBoundTabId # 0
        valid == bound /\ cachedTab # NoTab /\ isValidBinding(m.state, cachedTab, favorite)
        NotCached(tab) == tab.id # cachedTab.id
        matches == IF valid THEN <<cachedTab>> \o SelectSeq(found, NotCached) ELSE found
        m1 == IF bound /\ ~valid
              THEN Clears(m, favorite.id) ELSE m
    IN  IF matches = <<>>
        THEN LET m2 == openNew(m1, favorite.url, cmd, t, placeholder, fails)
                 m3 == Binds(m2, favorite.id, m.nextTabId, t)
             IN  IF Rejected(m2) THEN Outcome(m2, "rejected", 0, NoUrl)
                 ELSE Outcome(m3, "created", m.nextTabId, favorite.url)
        ELSE
        LET shouldCycle == alt \/ detectReclick(m1.state, m1.recentClicks, favorite.id, t)
            m2 == IF alt THEN m1
                  ELSE [m1 EXCEPT !.recentClicks =
                           detectReclickRecords(m1.state, m1.recentClicks, favorite.id, t)]
            cycles == shouldCycle /\ Len(matches) > 1
            target == IF cycles THEN getNextMatch(matches, m.currentWindowId)
                      ELSE matches[1]
            focus == focusTab(m2, target, favorite, t, heir, fails)
        IN  IF Rejected(focus) THEN Outcome(focus, "rejected", 0, NoUrl)
            ELSE Outcome(Binds(focus, favorite.id, target.id, t),
                         IF cycles THEN "cycled" ELSE "focused", target.id, target.url)

-----------------------------------------------------------------------------
(* State *)

VARIABLES
    tabCache,        \* background.js: the TabCache instance
    state,           \* background.js: 'state.v1' of chrome.storage.sync and its mirror
    recentClicks,    \* SmartSwitcher.recentClicks: favoriteId -> timestamp (0: none)
    tabs,            \* the browser: the open tabs by id
    nextTabId,       \* the browser: the id the next tab gets (ids are not reused)
    currentWindowId, \* the browser: chrome.windows.getCurrent().id
    events,          \* the browser: tab events not yet delivered to the listeners
    now,             \* Date.now()
    userActions,     \* the number of things the user has done
    last,            \* the handler that ran in the last step: what it was given,
                     \* what it found and what it returned
    scenario,        \* SpecScenario: the step the scenario is at, and its tab T
    storage,         \* SpecRace: 'state.v1' of chrome.storage.sync
    runs,            \* SpecRace: the invocations of switch, each with the await
                     \* it is at and its local variables
    writes,          \* SpecRace: the binding writes applied to the storage, in order
    call,            \* the TabCache or tab-matcher call made last, with what it
                     \* was given
    ncalls           \* the number of such calls made

cacheVars == <<call, ncalls>>
raceVars == <<storage, runs, writes>>
sysVars == <<state, recentClicks, tabs, nextTabId, currentWindowId, events, now,
             userActions, last, scenario, storage, runs, writes>>
vars == <<tabCache, state, recentClicks, tabs, nextTabId, currentWindowId, events,
          now, userActions, last, scenario, storage, runs, writes, call, ncalls>>

\* Date.now() when the service worker starts, and the time between two ticks
StartTime == 1000
TickMs == 1500

Wins == {1, 2}

\* op: "switch", or the type of the tab event handled; was: state.favorites
\* before the handler ran; the other fields are those of a switch: boundTab is
\* the cached tab favorite.lastBoundTabId named, candidates what findMatches
\* returned (ids), matching the cached tabs whose url matches the favorite,
\* lastClick the favorite's entry of recentClicks, opened the ids of the tabs
\* that existed (open or cached), all of them before the switch
NoLast == [op |-> "none", favoriteId |-> "", shift |-> FALSE, cmd |-> FALSE,
           alt |-> FALSE, action |-> "", tabId |-> 0, url |-> NoUrl, at |-> 0,
           changed |-> FALSE, boundTab |-> NoTab, candidates |-> <<>>,
           matching |-> {}, lastClick |-> 0, opened |-> {}, was |-> <<>>,
           log |-> <<>>, cached |-> <<>>, window |-> 0, tabs |-> <<>>,
           stored |-> <<>>]

NoScenario == [phase |-> 0, tab |-> 0]

\* no invocation of switch is split at its awaits: the storage is what state
\* mirrors
NoRace == storage = NoState /\ runs = <<>> /\ writes = <<>>

-----------------------------------------------------------------------------
(* SpecCache: any sequence of TabCache add, remove and update calls *)

CacheIds == {1, 2}
CacheWins == {1}
CacheUrls == {UrlMail, UrlInbox, UrlInboxT}

\* the tab objects handed to add and update: url and windowId may be missing
CacheTabs == [id : CacheIds, url : CacheUrls \cup {NoUrl}, windowId : CacheWins \cup {0},
              active : {FALSE}, lastAccessed : {0}]

\* what the last call was given and what get(tabId) returned before it
\* (oldUrl and oldWindowId are that tab's url and windowId); afterAdd: the call
\* before an add or a remove was add of a tab with this id, so that get(tabId)
\* returned the tab just added
NoCall == [op |-> "none", tabId |-> 0, changed |-> FALSE, wasCached |-> FALSE,
           oldUrl |-> NoUrl, oldWindowId |-> 0, afterAdd |-> FALSE]

InitCache ==
    /\ tabCache = NewTabCache
    /\ call = NoCall
    /\ ncalls = 0
    /\ state = NoState
    /\ recentClicks = EmptyMap
    /\ tabs = EmptyMap
    /\ nextTabId = 1
    /\ currentWindowId = 1
    /\ events = <<>>
    /\ now = StartTime
    /\ userActions = 0
    /\ last = NoLast
    /\ scenario = NoScenario
    /\ NoRace

CallAdd(tab) ==
    /\ UNCHANGED sysVars
    /\ ncalls < MaxCalls
    /\ ncalls' = ncalls + 1
    /\ tabCache' = TabCacheAdd(tabCache, tab)
    /\ call' = [op |-> "add", tabId |-> tab.id, changed |-> FALSE,
                wasCached |-> TabCacheGet(tabCache, tab.id) # NoTab,
                oldUrl |-> TabCacheGet(tabCache, tab.id).url,
                oldWindowId |-> TabCacheGet(tabCache, tab.id).windowId,
                afterAdd |-> call.op = "add" /\ call.tabId = tab.id]

CallRemove(tabId) ==
    /\ UNCHANGED sysVars
    /\ ncalls < MaxCalls
    /\ ncalls' = ncalls + 1
    /\ tabCache' = TabCacheRemove(tabCache, tabId)
    /\ call' = [op |-> "remove", tabId |-> tabId, changed |-> FALSE,
                wasCached |-> TabCacheGet(tabCache, tabId) # NoTab,
                oldUrl |-> TabCacheGet(tabCache, tabId).url,
                oldWindowId |-> TabCacheGet(tabCache, tabId).windowId,
                afterAdd |-> call.op = "add" /\ call.tabId = tabId]

\* chrome.tabs.onUpdated hands over the tab as it is now: tab.id is tabId and,
\* when changeInfo carries a url, tab.url is that url
CallUpdate(tabId, changeUrl, tab) ==
    /\ UNCHANGED sysVars
    /\ ncalls < MaxCalls
    /\ ncalls' = ncalls + 1
    /\ tab.id = tabId
    /\ ~Falsy(changeUrl) => tab.url = changeUrl
    /\ tabCache' = TabCacheUpdate(tabCache, tabId, changeUrl, tab)
    /\ call' = [op |-> "update", tabId |-> tabId, changed |-> ~Falsy(changeUrl),
                wasCached |-> TabCacheGet(tabCache, tabId) # NoTab,
                oldUrl |-> TabCacheGet(tabCache, tabId).url,
                oldWindowId |-> TabCacheGet(tabCache, tabId).windowId,
                afterAdd |-> FALSE]

NextCache ==
    \/ \E tab \in CacheTabs : CallAdd(tab)
    \/ \E tabId \in CacheIds : CallRemove(tabId)
    \/ \E tab \in CacheTabs, changeUrl \in CacheUrls \cup {NoUrl} :
          CallUpdate(tab.id, changeUrl, tab)

SpecCache == InitCache /\ [][NextCache]_vars

-----------------------------------------------------------------------------
(* Claims about the TabCache, under SpecCache *)

FoundByUrl(url, tabId) == \E t \in TabCacheFindByUrl(tabCache, url) : t.id = tabId

\* C6: after any sequence of add, remove and update calls, every tab id held in
\* the URL index or the window index is in the primary id map, and that tab's
\* canonical URL and windowId are the keys the id is indexed under.
C6_IndexConsistent ==
    /\ \A key \in DOMAIN tabCache.byUrl : \A id \in tabCache.byUrl[key] :
          /\ TabCacheGet(tabCache, id) # NoTab
          /\ ~Falsy(TabCacheGet(tabCache, id).url)
          /\ canonicalizeUrl(TabCacheGet(tabCache, id).url) = key
    /\ \A key \in DOMAIN tabCache.byWindow : \A id \in tabCache.byWindow[key] :
          /\ TabCacheGet(tabCache, id) # NoTab
          /\ TabCacheGet(tabCache, id).windowId = key

\* C7: after add(tab) followed by remove(tab.id), get(tab.id) is undefined and
\* findByUrl(tab.url) does not contain the tab, whatever the cache held before.
\* (remove found the tab just added, so call.oldUrl is tab.url.)
C7_AddThenRemove ==
    (call.op = "remove" /\ call.afterAdd) =>
        /\ TabCacheGet(tabCache, call.tabId) = NoTab
        /\ ~FoundByUrl(call.oldUrl, call.tabId)

\* add(tab), remove(tab.id) has run on a cache that holds another tab under the
\* same URL
C7_Witness ==
    /\ call.op = "remove" /\ call.afterAdd /\ ~Falsy(call.oldUrl)
    /\ TabCacheFindByUrl(tabCache, call.oldUrl) # {}

\* the keys of the id map, in insertion order
CacheKeys(c) == [i \in DOMAIN c.byId |-> c.byId[i].key]

\* the step is an add right after an add of a tab with the same id
SecondAdd == call.op = "add" /\ call'.op = "add" /\ call'.afterAdd

\* C34 as stated: a second add of a tab with the same id and url leaves the id
\* map and both indices as after the first, whatever the windowId of the two
\* tabs; remove of an id that is not cached leaves them unchanged
C34_Original ==
    [][/\ (SecondAdd /\ call'.oldUrl = TabCacheGet(tabCache', call'.tabId).url) =>
             tabCache' = tabCache
       /\ (call'.op = "remove" /\ ~call'.wasCached) => tabCache' = tabCache]_vars

\* C34: a second add of a tab with the same id, url and windowId leaves both
\* indices unchanged and the id map with the same keys in the same order, the
\* entry of the id being the tab of the second add and every other entry
\* untouched; remove of an id that is not cached leaves the id map and both
\* indices unchanged
C34_AddIdempotent ==
    [][/\ (/\ SecondAdd
           /\ call'.oldUrl = TabCacheGet(tabCache', call'.tabId).url
           /\ call'.oldWindowId = TabCacheGet(tabCache', call'.tabId).windowId) =>
             /\ tabCache'.byUrl = tabCache.byUrl
             /\ tabCache'.byWindow = tabCache.byWindow
             /\ CacheKeys(tabCache') = CacheKeys(tabCache)
             /\ \A id \in CacheIds \ {call'.tabId} :
                   TabCacheGet(tabCache', id) = TabCacheGet(tabCache, id)
       /\ (call'.op = "remove" /\ ~call'.wasCached) => tabCache' = tabCache]_vars

\* a tab with a url and a windowId was added twice in a row to a cache that
\* holds another tab as well
C34_Witness ==
    /\ call.op = "add" /\ call.afterAdd
    /\ ~Falsy(call.oldUrl) /\ call.oldWindowId # 0
    /\ call.oldUrl = TabCacheGet(tabCache, call.tabId).url
    /\ call.oldWindowId = TabCacheGet(tabCache, call.tabId).windowId
    /\ \E id \in CacheIds \ {call.tabId} : TabCacheGet(tabCache, id) # NoTab

\* C40: after any sequence of add, remove and update calls, every tab of the id
\* map that has a url is listed under its canonical url in the url index, and
\* every tab that has a windowId is listed under it in the window index
C40_IndexComplete ==
    \A id \in CacheIds :
        TabCacheGet(tabCache, id) # NoTab =>
            /\ ~Falsy(TabCacheGet(tabCache, id).url) => FoundByUrl(TabCacheGet(tabCache, id).url, id)
            /\ TabCacheGet(tabCache, id).windowId # 0 =>
                  /\ MapHas(tabCache.byWindow, TabCacheGet(tabCache, id).windowId)
                  /\ id \in tabCache.byWindow[TabCacheGet(tabCache, id).windowId]

\* C8 as stated: after update(id, changeInfo, tab) whose changeInfo carries a url,
\* for a cached tab, findByUrl(oldUrl) no longer returns the tab and
\* findByUrl(newUrl) returns it.
C8_Original ==
    (call.op = "update" /\ call.changed /\ call.wasCached) =>
        /\ ~FoundByUrl(call.oldUrl, call.tabId)
        /\ FoundByUrl(TabCacheGet(tabCache, call.tabId).url, call.tabId)

\* C8 as amended: findByUrl(newUrl) returns the tab, and findByUrl(oldUrl) no
\* longer returns it unless oldUrl and newUrl canonicalize to the same string.
C8_UpdateRemaps ==
    (call.op = "update" /\ call.changed /\ call.wasCached) =>
        /\ FoundByUrl(TabCacheGet(tabCache, call.tabId).url, call.tabId)
        /\ canonicalizeUrl(call.oldUrl)
               # canonicalizeUrl(TabCacheGet(tabCache, call.tabId).url)
           => ~FoundByUrl(call.oldUrl, call.tabId)

\* a cached tab with a url was updated to a url with another canonical form,
\* while another tab stays under the old url
C8_Witness ==
    /\ call.op = "update" /\ call.changed /\ call.wasCached /\ ~Falsy(call.oldUrl)
    /\ canonicalizeUrl(call.oldUrl) # canonicalizeUrl(TabCacheGet(tabCache, call.tabId).url)
    /\ TabCacheFindByUrl(tabCache, call.oldUrl) # {}

-----------------------------------------------------------------------------
(* Spec: the service worker, the browser and the user *)

Favorite(id, url, matchMode, matchPattern) ==
    [id |-> id, url |-> url, matchMode |-> matchMode, matchPattern |-> matchPattern,
     multiWindowBehavior |-> "", lastBoundTabId |-> 0, lastBoundAt |-> 0]

\* a regular expression that tests true on the inbox page and on the new tab page
InboxPattern == [present |-> TRUE, valid |-> TRUE,
                 accepts |-> {canonicalizeUrl(UrlInbox), canonicalizeUrl(UrlChrome)}]

\* "mail" takes the default match mode, "inbox" is matched by its pattern
InitialFavorites ==
    << Favorite("mail", UrlMail, "", NoPattern),
       Favorite("inbox", UrlInbox, MATCH_MODE.pattern, InboxPattern) >>

FavoriteIds == {"mail", "inbox"}

\* the preferences of a new installation
DefaultPreferences ==
    [present |-> TRUE, defaultMatchMode |-> MATCH_MODE.prefix,
     multiWindowBehavior |-> MULTI_WINDOW_BEHAVIOR.focus,
     enableCycleOnReclick |-> TRUE, cycleCooldown |-> 1500]

\* the urls the user opens and navigates to
UserUrls == {UrlMail, UrlInbox, UrlNews, UrlChrome}

Tab(id, url, windowId, active, lastAccessed) ==
    [id |-> id, url |-> url, windowId |-> windowId, active |-> active,
     lastAccessed |-> lastAccessed]

\* the tabs that are open when the service worker starts (the tab at place i
\* has id i): one window, its last tab the active one
InitialTabs ==
    { << Tab(1, UrlNews, 1, TRUE, StartTime) >>,
      << Tab(1, UrlMail, 1, TRUE, StartTime) >>,
      << Tab(1, UrlMail, 1, FALSE, StartTime), Tab(2, UrlInbox, 1, TRUE, StartTime) >> }

\* tabs.forEach(tab => tabCache.add(tab))
RECURSIVE Populate(_, _)
Populate(cache, open) ==
    IF open = <<>> THEN cache ELSE Populate(TabCacheAdd(cache, Head(open)), Tail(open))

\* initializeServices has run: the state is loaded and the cache holds the tabs
\* chrome.tabs.query returned
InitWith(open) ==
    /\ state = [loaded |-> TRUE, preferences |-> DefaultPreferences,
                favorites |-> InitialFavorites]
    /\ tabs = [i \in 1..Len(open) |-> open[i]]
    /\ tabCache = Populate(NewTabCache, open)
    /\ recentClicks = [f \in FavoriteIds |-> 0]
    /\ nextTabId = Len(open) + 1
    /\ currentWindowId = 1
    /\ events = <<>>
    /\ now = StartTime
    /\ userActions = 0
    /\ last = NoLast
    /\ call = NoCall
    /\ ncalls = 0

Init ==
    /\ \E open \in InitialTabs : InitWith(open)
    /\ scenario = NoScenario
    /\ NoRace

Machine == [tabCache |-> tabCache, state |-> state, recentClicks |-> recentClicks,
            tabs |-> tabs, nextTabId |-> nextTabId,
            currentWindowId |-> currentWindowId, events |-> events, log |-> <<>>,
            stored |-> <<>>]

Becomes(m) ==
    /\ tabCache' = m.tabCache
    /\ state' = m.state
    /\ recentClicks' = m.recentClicks
    /\ tabs' = m.tabs
    /\ nextTabId' = m.nextTabId
    /\ currentWindowId' = m.currentWindowId
    /\ events' = m.events

CachedIds(cache) == {cache.byId[i].key : i \in 1..Len(cache.byId)}

\* the cached tabs whose url matches the favorite under its effective mode
Matching(cache, st, favorite) ==
    {id \in CachedIds(cache) :
        matchesUrl(TabCacheGet(cache, id).url, favorite.url,
                   effectiveMode(st, favorite), favorite.matchPattern)}

\* the message 'favorite:switch' arrives: switcher.switch(favorite, modifiers).
\* cmd, placeholder and heir matter to some switches only (cmd and placeholder
\* when a tab is created, heir when a tab is moved): the other switches are
\* taken with them FALSE and 0
Switch(favoriteId, shift, cmd, alt, placeholder, heir, fails) ==
    /\ state.loaded
    /\ cmd => ~shift
    /\ heir # 0 => /\ state.preferences.present
                   /\ multiWindowBehavior(state, FavoriteById(state, favoriteId))
                         = MULTI_WINDOW_BEHAVIOR.adopt
    /\ LET favorite == FavoriteById(state, favoriteId)
           found == findMatches(tabCache, state, favorite, currentWindowId)
       IN  \E out \in {switch(Machine, favorite, shift, cmd, alt, now, placeholder, heir,
                                fails)} :
             /\ placeholder => out.action = "created"
             /\ cmd => out.action = "created" \/ fails = "tabs.create"
             \* the call that is to reject is issued
             /\ fails # "" => Rejected(out.m) /\ out.m.log[Len(out.m.log)].call = fails
             \* the tab that becomes active in the window a moved tab leaves
             /\ LET moved == {out.m.log[i].arg : i \in
                                {j \in DOMAIN out.m.log : /\ out.m.log[j].call = "tabs.move"
                                                         /\ ~out.m.log[j].rejected}}
                IN  IF moved = {} THEN heir = 0
                    ELSE \A id \in moved : heir \in Heirs(tabs, id)
             /\ out.m.nextTabId <= MaxTabId + 1
             /\ Len(out.m.events) <= MaxEvents
             /\ Becomes(out.m)
             /\ last' = [NoLast EXCEPT
                           !.op = "switch", !.favoriteId = favoriteId, !.shift = shift,
                           !.cmd = cmd, !.alt = alt, !.action = out.action,
                           !.tabId = out.tabId, !.url = out.url, !.at = now,
                           !.boundTab = TabCacheGet(tabCache, favorite.lastBoundTabId),
                           !.candidates = [i \in 1..Len(found) |-> found[i].id],
                           !.matching = Matching(tabCache, state, favorite),
                           !.lastClick = recentClicks[favoriteId],
                           !.opened = (DOMAIN tabs) \cup CachedIds(tabCache),
                           !.was = state.favorites, !.log = out.m.log,
                           !.stored = out.m.stored,
                           !.cached = TabCacheGetAll(tabCache),
                           !.window = currentWindowId, !.tabs = tabs]
    /\ UNCHANGED <<now, call, ncalls>>

\* chrome.tabs.onCreated
OnCreated(e) ==
    /\ tabCache' = TabCacheAdd(tabCache, e.tab)
    /\ UNCHANGED state

\* chrome.tabs.onRemoved
OnRemoved(e) ==
    /\ tabCache' = TabCacheRemove(tabCache, e.tabId)
    /\ state' = clearBindingsForTab(state, e.tabId)

\* chrome.tabs.onUpdated
OnUpdated(e) ==
    /\ tabCache' = TabCacheUpdate(tabCache, e.tabId, e.changeUrl, e.tab)
    /\ state' = IF ~Falsy(e.changeUrl)
                THEN revalidateBindingsForTab(state, e.tabId, e.tab) ELSE state

\* the browser delivers the oldest pending tab event to its listener
Deliver ==
    /\ events # <<>>
    /\ LET e == Head(events)
       IN  /\ \/ e.type = "created" /\ OnCreated(e)
              \/ e.type = "removed" /\ OnRemoved(e)
              \/ e.type = "updated" /\ OnUpdated(e)
           /\ last' = [NoLast EXCEPT !.op = e.type, !.tabId = e.tabId,
                                     !.url = e.tab.url, !.changed = ~Falsy(e.changeUrl),
                                     !.at = now, !.was = state.favorites]
    /\ events' = Tail(events)
    /\ UNCHANGED <<recentClicks, tabs, nextTabId, currentWindowId, now, call, ncalls>>

\* what every action of the user in the browser leaves alone
InBrowser ==
    /\ last' = NoLast
    /\ UNCHANGED <<tabCache, state, recentClicks, now, call, ncalls>>

\* the user opens a tab
UserOpensTab(url, windowId) ==
    /\ InBrowser
    /\ nextTabId <= MaxTabId
    /\ Len(events) < MaxEvents
    /\ LET tab == Tab(nextTabId, url, windowId, TRUE, now)
       IN  /\ tabs' = BrowserCreate(tabs, tab)
           /\ events' = Append(events, TabEvent("created", tab.id, NoUrl, tab))
    /\ nextTabId' = nextTabId + 1
    /\ currentWindowId' = windowId

\* the user closes a tab
UserClosesTab(id, heir) ==
    /\ InBrowser
    /\ id \in DOMAIN tabs
    /\ heir \in Heirs(tabs, id)
    /\ Len(events) < MaxEvents
    /\ tabs' = BrowserRemove(tabs, id, heir, now)
    /\ events' = Append(events, TabEvent("removed", id, NoUrl, NoTab))
    /\ UNCHANGED <<nextTabId, currentWindowId>>

\* a tab navigates to another url
UserNavigates(id, url) ==
    /\ InBrowser
    /\ id \in DOMAIN tabs
    /\ tabs[id].url # url
    /\ Len(events) < MaxEvents
    /\ tabs' = [tabs EXCEPT ![id].url = url]
    /\ events' = Append(events, TabEvent("updated", id, url, [tabs[id] EXCEPT !.url = url]))
    /\ UNCHANGED <<nextTabId, currentWindowId>>

\* the user selects a tab: no listener of the service worker hears of it
UserActivates(id) ==
    /\ InBrowser
    /\ id \in DOMAIN tabs
    /\ ~(tabs[id].active /\ currentWindowId = tabs[id].windowId)
    /\ tabs' = BrowserActivate(tabs, id, now)
    /\ currentWindowId' = tabs[id].windowId
    /\ UNCHANGED <<nextTabId, events>>

\* a tab reports a change that is not a url (status, title): onUpdated with the
\* tab as it is now
TabReports(id) ==
    /\ InBrowser
    /\ id \in DOMAIN tabs
    /\ Len(events) < MaxEvents
    /\ events' = Append(events, TabEvent("updated", id, NoUrl, tabs[id]))
    /\ UNCHANGED <<tabs, nextTabId, currentWindowId>>

\* time passes
Tick ==
    /\ now < StartTime + MaxTicks * TickMs
    /\ now' = now + TickMs
    /\ last' = NoLast
    /\ UNCHANGED <<tabCache, state, recentClicks, tabs, nextTabId, currentWindowId,
                   events, call, ncalls>>

\* the user does one more thing: a click on a favorite or an action in the browser
UserActs ==
    /\ userActions < MaxUserActions
    /\ userActions' = userActions + 1
    /\ UNCHANGED <<scenario, raceVars>>

\* the browser or the clock acts
NoUserActs == UNCHANGED <<userActions, scenario, raceVars>>

Next ==
    \/ \E favoriteId \in FavoriteIds, shift, cmd, alt, placeholder \in BOOLEAN,
          heir \in 0..MaxTabId :
          UserActs /\ Switch(favoriteId, shift, cmd, alt, placeholder, heir, "")
    \/ NoUserActs /\ Deliver
    \/ \E url \in UserUrls, windowId \in Wins : UserActs /\ UserOpensTab(url, windowId)
    \/ \E id \in 1..MaxTabId, heir \in 0..MaxTabId : UserActs /\ UserClosesTab(id, heir)
    \/ \E id \in 1..MaxTabId, url \in UserUrls : UserActs /\ UserNavigates(id, url)
    \/ \E id \in 1..MaxTabId : UserActs /\ UserActivates(id)
    \/ \E id \in 1..MaxTabId : UserActs /\ TabReports(id)
    \/ NoUserActs /\ Tick

Spec == Init /\ [][Next]_vars

-----------------------------------------------------------------------------
(* SpecScenario: click, navigate within the prefix, click, close, click *)

\* urls that have the url of "mail" as prefix, and urls that do not
PrefixUrls == {UrlMail, UrlInbox, UrlInboxT, UrlSent}
OtherUrls == {UrlNews, UrlChrome, UrlDocs}

\* the tabs open when the scenario starts: T alone, or T and a tab that does
\* not match "mail"
ScenarioTabs ==
    { << Tab(1, url, 1, TRUE, StartTime) >> : url \in PrefixUrls }
    \cup { << Tab(1, url, 1, ~active, StartTime), Tab(2, other, windowId, active, StartTime) >> :
              url \in PrefixUrls, other \in OtherUrls, windowId \in Wins,
              active \in BOOLEAN }
    \cup { << Tab(1, other, windowId, active, StartTime), Tab(2, url, 1, ~active, StartTime) >> :
              url \in PrefixUrls, other \in OtherUrls, windowId \in Wins,
              active \in BOOLEAN }

InitScenario ==
    \E open \in ScenarioTabs :
       /\ InitWith(open)
       /\ \E T \in 1..Len(open) :
             /\ open[T].url \in PrefixUrls
             /\ scenario = [phase |-> 1, tab |-> T]
       /\ NoRace

\* the scenario moves from step phase to the next one
Then(phase) ==
    /\ scenario.phase = phase
    /\ scenario' = [scenario EXCEPT !.phase = phase + 1]
    /\ UNCHANGED <<userActions, raceVars>>

Click(placeholder) == Switch("mail", FALSE, FALSE, FALSE, placeholder, 0, "")

NextScenario ==
    \/ Then(1) /\ Click(FALSE)
    \/ \E url \in PrefixUrls : Then(2) /\ UserNavigates(scenario.tab, url)
    \/ Then(3) /\ Deliver
    \/ Then(4) /\ Click(FALSE)
    \/ \E heir \in 0..MaxTabId : Then(5) /\ UserClosesTab(scenario.tab, heir)
    \/ Then(6) /\ Deliver
    \/ \E placeholder \in BOOLEAN : Then(7) /\ Click(placeholder)
    \/ NoUserActs /\ Tick

SpecScenario == InitScenario /\ [][NextScenario]_vars

-----------------------------------------------------------------------------
(* SpecSwitch: switches on a state loaded from storage, with host calls    *)
(* that may reject                                                         *)

\* the preferences the state may hold: those of a new installation, those of a
\* user who chose to adopt tabs, and none
AdoptPreferences ==
    [DefaultPreferences EXCEPT !.multiWindowBehavior = MULTI_WINDOW_BEHAVIOR.adopt]

StoredPreferences == {DefaultPreferences, AdoptPreferences, NoPreferences}

\* "mail" may be bound to a tab of an earlier run of the browser; "newtab" is the
\* new tab page, added with the Add Favorite form
StoredFavorites(bound) ==
    << [Favorite("mail", UrlMail, "", NoPattern) EXCEPT
            !.lastBoundTabId = bound,
            !.lastBoundAt = IF bound = 0 THEN 0 ELSE StartTime - 1],
       Favorite("newtab", UrlChrome, "", NoPattern) >>

StoredFavoriteIds == {"mail", "newtab"}

\* the tabs that are open when the service worker starts: those of one window,
\* or of two windows with window 1 the current one
StartTabs ==
    InitialTabs \cup
    { << Tab(1, UrlNews, 1, TRUE, StartTime), Tab(2, UrlMail, 2, TRUE, StartTime),
         Tab(3, UrlInbox, 2, FALSE, StartTime) >> }

InitSwitch ==
    /\ \E open \in StartTabs, preferences \in StoredPreferences, bound \in 0..MaxTabId :
          /\ state = [loaded |-> TRUE, preferences |-> preferences,
                      favorites |-> StoredFavorites(bound)]
          /\ tabs = [i \in 1..Len(open) |-> open[i]]
          /\ tabCache = Populate(NewTabCache, open)
          /\ nextTabId = Len(open) + 1
    /\ recentClicks = [f \in StoredFavoriteIds |-> 0]
    /\ currentWindowId = 1
    /\ events = <<>>
    /\ now = StartTime
    /\ userActions = 0
    /\ last = NoLast
    /\ scenario = NoScenario
    /\ NoRace
    /\ call = NoCall
    /\ ncalls = 0

SwitchUserActs == userActions < MaxSwitchActions /\ UserActs

NextSwitch ==
    \/ \E favoriteId \in StoredFavoriteIds, shift, cmd, alt \in BOOLEAN,
          heir \in 0..MaxTabId, fails \in HostCalls \cup {""} :
          SwitchUserActs /\ Switch(favoriteId, shift, cmd, alt, FALSE, heir, fails)
    \/ NoUserActs /\ Deliver
    \/ \E id \in 1..MaxTabId, heir \in 0..MaxTabId :
          SwitchUserActs /\ UserClosesTab(id, heir)
    \/ \E id \in 1..MaxTabId : SwitchUserActs /\ UserActivates(id)
    \/ NoUserActs /\ Tick

SpecSwitch == InitSwitch /\ [][NextSwitch]_vars

-----------------------------------------------------------------------------
(* SpecRace: invocations of switch that interleave at their awaits.  A step *)
(* of an invocation is the code between two awaits; updateFavorite reads    *)
(* the storage, then writes it, then assigns state.                         *)

\* the invocations that may be in flight together
MaxRuns == 2
Runs == 1..MaxRuns

NoRun == [pc |-> "idle", favorite |-> Favorite("", NoUrl, "", NoPattern),
          shift |-> FALSE, alt |-> FALSE, matches |-> <<>>, target |-> NoTab,
          action |-> "", read |-> NoState]

InitRace ==
    /\ \E open \in InitialTabs :
          /\ tabs = [i \in 1..Len(open) |-> open[i]]
          /\ tabCache = Populate(NewTabCache, open)
          /\ nextTabId = Len(open) + 1
    /\ state = [loaded |-> TRUE, preferences |-> DefaultPreferences,
                favorites |-> InitialFavorites]
    /\ storage = state
    /\ runs = [r \in Runs |-> NoRun]
    /\ writes = <<>>
    /\ recentClicks = [f \in FavoriteIds |-> 0]
    /\ currentWindowId = 1
    /\ events = <<>>
    /\ now = StartTime
    /\ userActions = 0
    /\ last = NoLast
    /\ scenario = NoScenario
    /\ call = NoCall
    /\ ncalls = 0

\* what a step of run r leaves alone besides the variables it names
RaceFrame == UNCHANGED <<now, userActions, last, scenario, call, ncalls>>

\* the message 'favorite:switch' arrives: switch runs to its first await,
\* chrome.windows.getCurrent() of switch or, with shift, of openNew
Dispatch(r, favoriteId, shift, alt) ==
    /\ state.loaded
    /\ runs[r].pc = "idle"
    /\ \A q \in Runs : q < r => runs[q].pc # "idle"
    /\ userActions < MaxUserActions
    /\ userActions' = userActions + 1
    /\ runs' = [runs EXCEPT ![r] = [NoRun EXCEPT
                   !.pc = IF shift THEN "open" ELSE "matching",
                   !.favorite = FavoriteById(state, favoriteId),
                   !.shift = shift, !.alt = alt]]
    /\ UNCHANGED <<tabCache, state, recentClicks, tabs, nextTabId, currentWindowId,
                   events, storage, writes, now, last, scenario, call, ncalls>>

\* 'No matches' / cycle / 'Focus best match', up to the next await: the run as
\* it goes on and the reclick map
Decide(run, clicks) ==
    IF run.matches = <<>> THEN [run |-> [run EXCEPT !.pc = "open"], clicks |-> clicks]
    ELSE LET shouldCycle == run.alt \/ detectReclick(state, clicks, run.favorite.id, now)
             cycles == shouldCycle /\ Len(run.matches) > 1
         IN  [run |-> [run EXCEPT
                          !.pc = "focus",
                          !.action = IF cycles THEN "cycled" ELSE "focused",
                          !.target = IF cycles
                                     THEN getNextMatch(run.matches, currentWindowId)
                                     ELSE run.matches[1]],
              clicks |-> IF run.alt THEN clicks
                         ELSE detectReclickRecords(state, clicks, run.favorite.id, now)]

\* getCurrent has resolved: findMatches and the binding check; a binding that
\* is not valid leads to the storage read of clearBinding
FindsMatches(r) ==
    /\ runs[r].pc = "matching"
    /\ LET favorite == runs[r].favorite
           found == findMatches(tabCache, state, favorite, currentWindowId)
           cachedTab == TabCacheGet(tabCache, favorite.lastBoundTabId)
           bound == favorite.lastBoundTabId # 0
           valid == bound /\ cachedTab # NoTab /\ isValidBinding(state, cachedTab, favorite)
           NotCached(tab) == tab.id # cachedTab.id
           matches == IF valid THEN <<cachedTab>> \o SelectSeq(found, NotCached) ELSE found
           run == [runs[r] EXCEPT !.matches = matches]
       IN  IF bound /\ ~valid
           THEN /\ runs' = [runs EXCEPT ![r] = [run EXCEPT !.pc = "clear.read"]]
                /\ UNCHANGED recentClicks
           ELSE /\ runs' = [runs EXCEPT ![r] = Decide(run, recentClicks).run]
                /\ recentClicks' = Decide(run, recentClicks).clicks
    /\ UNCHANGED <<tabCache, state, tabs, nextTabId, currentWindowId, events, storage,
                   writes>>
    /\ RaceFrame

\* updateFavorite: chrome.storage.sync.get has resolved
Reads(r) ==
    /\ runs[r].pc \in {"clear.read", "bind.read"}
    /\ runs' = [runs EXCEPT ![r] = [runs[r] EXCEPT
                   !.read = storage,
                   !.pc = IF runs[r].pc = "clear.read" THEN "clear.write"
                          ELSE "bind.write"]]
    /\ UNCHANGED <<tabCache, state, recentClicks, tabs, nextTabId, currentWindowId,
                   events, storage, writes>>
    /\ RaceFrame

\* updateFavorite: chrome.storage.sync.set of the state it read with the
\* favorite updated
Writes(r) ==
    /\ runs[r].pc \in {"clear.write", "bind.write"}
    /\ LET clears == runs[r].pc = "clear.write"
           tabId == IF clears THEN 0 ELSE runs[r].target.id
           updated == updateFavorite(runs[r].read, runs[r].favorite.id, tabId,
                                     IF clears THEN 0 ELSE now)
       IN  /\ storage' = updated
           /\ writes' = Append(writes, [run |-> r, favoriteId |-> runs[r].favorite.id,
                                        tabId |-> tabId])
           /\ runs' = [runs EXCEPT ![r] = [runs[r] EXCEPT
                          !.read = updated,
                          !.pc = IF clears THEN "clear.done" ELSE "bind.done"]]
    /\ UNCHANGED <<tabCache, state, recentClicks, tabs, nextTabId, currentWindowId,
                   events>>
    /\ RaceFrame

\* updateFavorite: the set has resolved, state = updatedState; after
\* clearBinding the switch goes on, after updateBinding it returns
Written(r) ==
    /\ runs[r].pc \in {"clear.done", "bind.done"}
    /\ state' = runs[r].read
    /\ IF runs[r].pc = "bind.done"
       THEN /\ runs' = [runs EXCEPT ![r] = [runs[r] EXCEPT !.pc = "done"]]
            /\ UNCHANGED recentClicks
       ELSE /\ runs' = [runs EXCEPT ![r] = Decide(runs[r], recentClicks).run]
            /\ recentClicks' = Decide(runs[r], recentClicks).clicks
    /\ UNCHANGED <<tabCache, tabs, nextTabId, currentWindowId, events, storage, writes>>
    /\ RaceFrame

\* openNew: chrome.tabs.create is called and the browser opens the tab
Opens(r) ==
    /\ runs[r].pc = "open"
    /\ nextTabId <= MaxTabId
    /\ Len(events) < MaxEvents
    /\ LET m == openNew(Machine, runs[r].favorite.url, FALSE, now, FALSE, "")
       IN  /\ tabs' = m.tabs
           /\ nextTabId' = m.nextTabId
           /\ events' = m.events
           /\ runs' = [runs EXCEPT ![r] = [runs[r] EXCEPT
                          !.pc = "opened", !.action = "created",
                          !.target = m.tabs[nextTabId]]]
    /\ UNCHANGED <<tabCache, state, recentClicks, currentWindowId, storage, writes>>
    /\ RaceFrame

\* openNew: chrome.tabs.create has resolved, this.tabCache.add(tab); then the
\* storage read of updateBinding
Opened(r) ==
    /\ runs[r].pc = "opened"
    /\ tabCache' = TabCacheAdd(tabCache, runs[r].target)
    /\ runs' = [runs EXCEPT ![r] = [runs[r] EXCEPT !.pc = "bind.read"]]
    /\ UNCHANGED <<state, recentClicks, tabs, nextTabId, currentWindowId, events,
                   storage, writes>>
    /\ RaceFrame

\* focusTab: its calls of chrome.windows and chrome.tabs; when one rejects the
\* switch rejects
Focuses(r) ==
    /\ runs[r].pc = "focus"
    /\ LET m == focusTab(Machine, runs[r].target, runs[r].favorite, now, 0, "")
       IN  /\ tabs' = m.tabs
           /\ currentWindowId' = m.currentWindowId
           /\ runs' = [runs EXCEPT ![r] = [runs[r] EXCEPT
                          !.pc = IF Rejected(m) THEN "rejected" ELSE "bind.read"]]
    /\ UNCHANGED <<tabCache, state, recentClicks, nextTabId, events, storage, writes>>
    /\ RaceFrame

\* chrome.storage.onChanged: state = changes['state.v1'].newValue
StorageChanged ==
    /\ state # storage
    /\ state' = storage
    /\ UNCHANGED <<tabCache, recentClicks, tabs, nextTabId, currentWindowId, events,
                   storage, runs, writes>>
    /\ RaceFrame

\* the favorites state holds as bound to the tab, cleared one by one in the
\* storage
RECURSIVE SweepStorage(_, _, _)
SweepStorage(stored, favorites, tabId) ==
    IF favorites = <<>> THEN stored
    ELSE SweepStorage(IF Head(favorites).lastBoundTabId = tabId
                      THEN clearBinding(stored, Head(favorites).id) ELSE stored,
                      Tail(favorites), tabId)

\* the oldest pending tab event is handled: onCreated adds to the cache,
\* onRemoved removes from it and runs clearBindingsForTab
RaceDelivers ==
    /\ events # <<>>
    /\ LET e == Head(events)
           swept == SweepStorage(storage, state.favorites, e.tabId)
       IN  IF e.type = "created"
           THEN /\ tabCache' = TabCacheAdd(tabCache, e.tab)
                /\ UNCHANGED <<state, storage>>
           ELSE /\ tabCache' = TabCacheRemove(tabCache, e.tabId)
                /\ storage' = swept
                /\ state' = IF swept = storage THEN state ELSE swept
    /\ events' = Tail(events)
    /\ UNCHANGED <<recentClicks, tabs, nextTabId, currentWindowId, runs, writes>>
    /\ RaceFrame

\* the user closes a tab
RaceCloses(id, heir) ==
    /\ userActions < MaxUserActions
    /\ userActions' = userActions + 1
    /\ id \in DOMAIN tabs
    /\ heir \in Heirs(tabs, id)
    /\ Len(events) < MaxEvents
    /\ tabs' = BrowserRemove(tabs, id, heir, now)
    /\ events' = Append(events, TabEvent("removed", id, NoUrl, NoTab))
    /\ UNCHANGED <<tabCache, state, recentClicks, nextTabId, currentWindowId, storage,
                   runs, writes, now, last, scenario, call, ncalls>>

NextRace ==
    \/ \E r \in Runs, favoriteId \in FavoriteIds, shift, alt \in BOOLEAN :
          Dispatch(r, favoriteId, shift, alt)
    \/ \E r \in Runs : FindsMatches(r)
    \/ \E r \in Runs : Reads(r)
    \/ \E r \in Runs : Writes(r)
    \/ \E r \in Runs : Written(r)
    \/ \E r \in Runs : Opens(r)
    \/ \E r \in Runs : Opened(r)
    \/ \E r \in Runs : Focuses(r)
    \/ StorageChanged
    \/ RaceDelivers
    \/ \E id \in 1..MaxTabId, heir \in 0..MaxTabId : RaceCloses(id, heir)

SpecRace == InitRace /\ [][NextRace]_vars

-----------------------------------------------------------------------------
(* Claims about the switcher and the listeners, under Spec and SpecScenario *)

\* the favorite as it was before the handler of the last step ran, and as it is
Before(favoriteId) ==
    LET i == CHOOSE i \in DOMAIN last.was : last.was[i].id = favoriteId
    IN  last.was[i]

Clicked == FavoriteById(state, last.favoriteId)

Matches(url, favorite) ==
    matchesUrl(url, favorite.url, effectiveMode(state, favorite), favorite.matchPattern)

\* the last click came within the cooldown of the click before it on the favorite
WithinCooldown ==
    /\ state.preferences.enableCycleOnReclick
    /\ last.lastClick # 0
    /\ last.at - last.lastClick < cycleCooldown(state)

\* C1: a switch with shift creates a new tab at the url of the favorite, binds
\* the favorite to it and returns 'created', whatever the cache holds and
\* whatever the favorite was bound to
C1_ShiftCreates ==
    (last.op = "switch" /\ last.shift) =>
        /\ last.action = "created"
        /\ last.url = Clicked.url
        /\ last.tabId \notin last.opened
        /\ last.tabId \in DOMAIN tabs
        /\ tabs[last.tabId].url = Clicked.url
        /\ Clicked.lastBoundTabId = last.tabId

\* a switch with shift ran while a cached tab matched the favorite exactly and
\* the favorite was bound
C1_Witness ==
    /\ last.op = "switch" /\ last.shift
    /\ Before(last.favoriteId).lastBoundTabId # 0
    /\ \E id \in last.matching : id \in DOMAIN tabs /\ tabs[id].url = Clicked.url

\* C2: a switch without shift on a favorite that has no binding, when no cached
\* tab matches the favorite, returns 'created' and leaves the favorite bound to
\* the tab it created
C2_NoMatchCreates ==
    (/\ last.op = "switch" /\ ~last.shift
     /\ Before(last.favoriteId).lastBoundTabId = 0
     /\ last.matching = {}) =>
        /\ last.action = "created"
        /\ last.tabId \notin last.opened
        /\ last.tabId \in DOMAIN tabs
        /\ Clicked.lastBoundTabId = last.tabId

\* such a switch ran while other tabs were cached
C2_Witness ==
    /\ last.op = "switch" /\ ~last.shift
    /\ Before(last.favoriteId).lastBoundTabId = 0
    /\ last.matching = {}
    /\ last.opened # {}

\* C3 as stated (C1 is the rule for shift): a switch without shift on a favorite
\* whose lastBoundTabId names a cached tab that still matches the favorite
\* returns 'focused' with that tab id
C3_Original ==
    (/\ last.op = "switch" /\ ~last.shift
     /\ last.boundTab # NoTab
     /\ Matches(last.boundTab.url, Before(last.favoriteId))) =>
        /\ last.action = "focused"
        /\ last.tabId = Before(last.favoriteId).lastBoundTabId

\* C3: a switch without shift or alt that is not a reclick within the cooldown,
\* on a favorite whose lastBoundTabId names a cached tab that is still open and
\* whose url is not internal and still matches the favorite, returns 'focused'
\* with that tab id
C3_BoundTabFocused ==
    (/\ last.op = "switch" /\ ~last.shift /\ ~last.alt /\ ~WithinCooldown
     /\ last.boundTab # NoTab
     /\ ~IsInternal(last.boundTab.url)
     /\ Matches(last.boundTab.url, Before(last.favoriteId))
     /\ Before(last.favoriteId).lastBoundTabId \in DOMAIN tabs) =>
        /\ last.action = "focused"
        /\ last.tabId = Before(last.favoriteId).lastBoundTabId

\* such a switch ran while another tab was the first of the ranked candidates
C3_Witness ==
    /\ last.op = "switch" /\ ~last.shift /\ ~last.alt /\ ~WithinCooldown
    /\ last.boundTab # NoTab
    /\ ~IsInternal(last.boundTab.url)
    /\ Matches(last.boundTab.url, Before(last.favoriteId))
    /\ Before(last.favoriteId).lastBoundTabId \in DOMAIN tabs
    /\ Len(last.candidates) >= 2
    /\ last.candidates[1] # Before(last.favoriteId).lastBoundTabId

\* the open tabs a switch on the favorite may go to
OpenMatching(favorite) ==
    {id \in DOMAIN tabs : ~IsInternal(tabs[id].url) /\ Matches(tabs[id].url, favorite)}

\* C4: when a favorite has at least 2 open matching tabs, all of them cached,
\* and cycling is enabled, the second of two plain clicks within the cooldown
\* returns 'cycled' with a tab id other than the one the first click returned
C4_RapidClicksCycle ==
    [][ (/\ last.op = "switch" /\ last'.op = "switch"
         /\ last'.favoriteId = last.favoriteId
         /\ ~last.shift /\ ~last.cmd /\ ~last.alt
         /\ ~last'.shift /\ ~last'.cmd /\ ~last'.alt
         /\ last.action \in {"focused", "cycled"}
         /\ events = <<>>
         /\ Cardinality(OpenMatching(Clicked)) >= 2
         /\ OpenMatching(Clicked) \subseteq last.matching
         /\ state.preferences.enableCycleOnReclick
         /\ last'.at - last.at < cycleCooldown(state))
        => (last'.action = "cycled" /\ last'.tabId # last.tabId) ]_vars

ScenarioBound == FavoriteById(state, "mail").lastBoundTabId

\* C5: with one open tab T matching the prefix favorite, a click returns
\* 'focused' on T and binds T; after T went to another url under the prefix
\* and the event was handled, the favorite is still bound to T and a click
\* returns 'focused' on T; after T was closed and the event was handled, a
\* click returns 'created' with a new tab id and binds the favorite to it
C5_Scenario ==
    /\ scenario.phase \in {2, 4, 5} => ScenarioBound = scenario.tab
    /\ (scenario.phase \in {2, 5} /\ last.op = "switch") =>
          (last.action = "focused" /\ last.tabId = scenario.tab)
    /\ scenario.phase = 8 =>
          /\ ScenarioBound \in (DOMAIN tabs) \ {scenario.tab}
          /\ last.op = "switch" =>
                /\ last.action = "created"
                /\ last.tabId = ScenarioBound
                /\ last.tabId \notin last.opened

\* the scenario has run to its end
C5_Witness == scenario.phase = 8 /\ last.op = "switch"

\* C9: after the listener of onRemoved has run for tab T, every favorite that
\* was bound to T has lastBoundTabId and lastBoundAt null, and every other
\* favorite is as it was
C9_CloseClearsBindings ==
    last.op = "removed" =>
        \A i \in DOMAIN last.was :
            IF last.was[i].lastBoundTabId = last.tabId
            THEN /\ state.favorites[i].lastBoundTabId = 0
                 /\ state.favorites[i].lastBoundAt = 0
            ELSE state.favorites[i] = last.was[i]

\* the listener ran for a tab a favorite was bound to, while another favorite
\* was bound to another tab
C9_Witness ==
    /\ last.op = "removed"
    /\ \E i \in DOMAIN last.was : last.was[i].lastBoundTabId = last.tabId
    /\ \E i \in DOMAIN last.was : last.was[i].lastBoundTabId \notin {0, last.tabId}

-----------------------------------------------------------------------------
(* Claims about switches on a stored state, under SpecSwitch *)

\* the favorite of this id among the persisted favorites
Among(favorites, favoriteId) ==
    favorites[CHOOSE i \in DOMAIN favorites : favorites[i].id = favoriteId]

\* the last step was a switch without shift on a favorite whose lastBoundTabId
\* named no cached tab, or a cached tab that does not match the favorite
StaleBinding ==
    /\ last.op = "switch" /\ ~last.shift
    /\ Before(last.favoriteId).lastBoundTabId # 0
    /\ \/ last.boundTab = NoTab
       \/ ~Matches(last.boundTab.url, Before(last.favoriteId))

\* C11: in a switch without shift on a favorite whose lastBoundTabId is absent
\* from the cache or names a tab that no longer matches, every call of
\* chrome.tabs and chrome.windows the switch issues (create, window focus, move,
\* activate) is issued when the persisted favorite already has a null
\* lastBoundTabId and a null lastBoundAt
C11_ClearedBeforeAction ==
    StaleBinding =>
        /\ last.log # <<>>
        /\ \A i \in DOMAIN last.log :
              /\ Among(last.log[i].favorites, last.favoriteId).lastBoundTabId = 0
              /\ Among(last.log[i].favorites, last.favoriteId).lastBoundAt = 0

\* a favorite bound to a cached tab that does not match it was switched to
\* another tab
C11_Witness ==
    /\ StaleBinding
    /\ last.boundTab # NoTab
    /\ last.action = "focused"
    /\ last.tabId # Before(last.favoriteId).lastBoundTabId
    /\ last.log # <<>>

\* the cached tabs that were candidates when the last switch started: not
\* internal, and matching the favorite
CandidateIds ==
    {last.cached[i].id : i \in
        {j \in DOMAIN last.cached :
            /\ ~Falsy(last.cached[j].url)
            /\ ~IsInternal(last.cached[j].url)
            /\ Matches(last.cached[j].url, Before(last.favoriteId))}}

\* the calls of this name the last switch issued
Issued(name) == {i \in DOMAIN last.log : last.log[i].call = name}

\* C12 as stated: a switch without shift that finds a cached tab that is not
\* internal and matches the favorite returns 'focused' or 'cycled' on a cached
\* tab and creates no tab
C12_Original ==
    (last.op = "switch" /\ ~last.shift /\ CandidateIds # {}) =>
        /\ last.action \in {"focused", "cycled"}
        /\ last.tabId \in CandidateIds
        /\ Issued("tabs.create") = {}
        /\ DOMAIN tabs = DOMAIN last.tabs

\* C12: a switch without shift that finds a cached tab that is not internal and
\* matches the favorite issues no chrome.tabs.create and opens no tab; it
\* returns 'focused' or 'cycled' on one of these tabs, which is open, unless a
\* call of chrome.tabs or chrome.windows rejects, and then the switch rejects
C12_CreatesOnlyWhenEmpty ==
    (last.op = "switch" /\ ~last.shift /\ CandidateIds # {}) =>
        /\ Issued("tabs.create") = {}
        /\ DOMAIN tabs = DOMAIN last.tabs
        /\ \/ /\ last.action \in {"focused", "cycled"}
              /\ last.tabId \in CandidateIds \cap DOMAIN tabs
              /\ \A i \in DOMAIN last.log : ~last.log[i].rejected
           \/ /\ last.action = "rejected"
              /\ last.log[Len(last.log)].rejected

\* a switch with alt found two candidates and went to one of them
C12_Witness ==
    /\ last.op = "switch" /\ ~last.shift /\ last.alt
    /\ Cardinality(CandidateIds) >= 2
    /\ last.action = "cycled"
    /\ last.tabId \in CandidateIds
    /\ DOMAIN tabs = DOMAIN last.tabs

\* the candidate list of the last switch, as ids: the bound tab first when it is
\* a candidate, then the ranked matches
Candidates ==
    LET bound == Before(last.favoriteId).lastBoundTabId
        Other(id) == id # bound
    IN  IF bound \in CandidateIds
        THEN <<bound>> \o SelectSeq(last.candidates, Other)
        ELSE last.candidates

\* the tab of this id as it was cached when the last switch started
CachedTab(id) ==
    last.cached[CHOOSE i \in DOMAIN last.cached : last.cached[i].id = id]

\* the places of the candidates cached as active in the window that was current
ActivePlaces ==
    {i \in DOMAIN Candidates : /\ CachedTab(Candidates[i]).active
                               /\ CachedTab(Candidates[i]).windowId = last.window}

\* candidates[(i+1) mod n] in 0-based places, candidates[0] when none is active
NextCandidate ==
    IF ActivePlaces = {} THEN Candidates[1]
    ELSE LET i == CHOOSE i \in ActivePlaces : \A j \in ActivePlaces : i <= j
         IN  Candidates[(i % Len(Candidates)) + 1]

\* the calls of the last switch about a tab are about this tab
AboutTab(id) ==
    \A i \in DOMAIN last.log :
        last.log[i].call \in {"tabs.move", "tabs.update"} => last.log[i].arg = id

C14_CyclingVisitsAll ==
    [][ (/\ last.op = "switch" /\ last'.op = "switch"
         /\ last'.favoriteId = last.favoriteId
         /\ ~last.shift /\ last.alt /\ ~last'.shift /\ last'.alt
         /\ last.action = "cycled" /\ last'.action = "cycled"
         /\ events = <<>>
         /\ Cardinality(OpenMatching(Clicked)) = 2
         /\ OpenMatching(Clicked) \subseteq last.matching)
        => {last.tabId, last'.tabId} = OpenMatching(Clicked) ]_vars

\* C15: after every switch without shift, the reclick map holds the time of
\* that switch as the latest click on the favorite
C15_RecordsClick ==
    (last.op = "switch" /\ ~last.shift) => recentClicks[last.favoriteId] = last.at

\* the last switch resolved to a cached tab of a window that was not the
\* current one, under preferences that are present
Elsewhere ==
    /\ last.op = "switch" /\ last.action \in {"focused", "cycled"}
    /\ state.preferences.present
    /\ CachedTab(last.tabId).windowId # last.window

\* the multi-window behaviour in force for the clicked favorite
Behaviour ==
    IF Clicked.multiWindowBehavior # "" THEN Clicked.multiWindowBehavior
    ELSE state.preferences.multiWindowBehavior

\* the calls of the last switch, in the order they were issued
Calls == [i \in DOMAIN last.log |-> last.log[i].call]

\* C16: when a switch focuses a tab of another window, under 'focus' it asks
\* for that window to be focused, which becomes the current window, and the
\* tab stays in its window; under 'adopt' it moves the tab to the current
\* window at index -1 (the end), the tab is then in the current window, and no
\* window focus is asked for; in both cases the last call is
\* chrome.tabs.update(tab, {active: true}) and the tab is active afterwards
C16_OtherWindow ==
    Elsewhere =>
        /\ last.log[Len(last.log)].call = "tabs.update"
        /\ last.log[Len(last.log)].arg = last.tabId
        /\ last.log[Len(last.log)].props = [active |-> TRUE]
        /\ tabs[last.tabId].active
        /\ Behaviour = MULTI_WINDOW_BEHAVIOR.focus =>
              /\ Calls = <<"windows.update", "tabs.update">>
              /\ last.log[1].arg = last.tabs[last.tabId].windowId
              /\ last.log[1].props = [focused |-> TRUE]
              /\ currentWindowId = last.tabs[last.tabId].windowId
              /\ tabs[last.tabId].windowId = last.tabs[last.tabId].windowId
        /\ Behaviour = MULTI_WINDOW_BEHAVIOR.adopt =>
              /\ Calls = <<"tabs.move", "tabs.update">>
              /\ last.log[1].arg = last.tabId
              /\ last.log[1].props = [windowId |-> last.window, index |-> -1]
              /\ currentWindowId = last.window
              /\ tabs[last.tabId].windowId = last.window

\* under 'adopt', the active tab of another window was moved to the current
\* window and another tab of the window it left became active there
C16_Witness ==
    /\ Elsewhere
    /\ Behaviour = MULTI_WINDOW_BEHAVIOR.adopt
    /\ last.tabs[last.tabId].active
    /\ tabs[last.tabId].windowId = last.window
    /\ \E id \in DOMAIN tabs : /\ tabs[id].windowId # last.window
                               /\ tabs[id].active /\ ~last.tabs[id].active

\* the creation event of the tab has not been handled yet
CreationPending(tabId) ==
    \E i \in DOMAIN events : events[i].type = "created" /\ events[i].tabId = tabId

\* when the last switch created a tab, the cache holds it under its id, under
\* the url of the favorite and under the current window, while its creation
\* event is still to be handled
CreatedIsCached ==
    (last.op = "switch" /\ last.action = "created") =>
        /\ CreationPending(last.tabId)
        /\ TabCacheGet(tabCache, last.tabId) # NoTab
        /\ TabCacheGet(tabCache, last.tabId).url = Clicked.url
        /\ FoundByUrl(Clicked.url, last.tabId)
        /\ \E tab \in TabCacheGetByWindow(tabCache, currentWindowId) : tab.id = last.tabId

\* a switch without shift on the favorite follows a switch that created a tab
\* for it, with no step in between
SwitchedAgain ==
    /\ last.op = "switch" /\ last.action = "created"
    /\ last'.op = "switch" /\ last'.favoriteId = last.favoriteId /\ ~last'.shift

\* C17 as stated: a created tab is cached at once, and a switch on the same
\* favorite right after finds it as a candidate and creates no tab
C17_Original ==
    /\ []CreatedIsCached
    /\ [][ SwitchedAgain =>
             /\ \E i \in DOMAIN last'.candidates : last'.candidates[i] = last.tabId
             /\ last'.action # "created" ]_vars

\* C17: a created tab is cached at once (id map, url index of the favorite's
\* url, window index) before its creation event is handled; a switch without
\* shift on the same favorite right after finds it as a candidate and issues
\* no chrome.tabs.create, when the url of the favorite is not a chrome:// or
\* edge:// url and matches the favorite
C17_CreatedTabCached ==
    /\ []CreatedIsCached
    /\ [][ (/\ SwitchedAgain
            /\ ~IsInternal(Clicked.url)
            /\ Matches(Clicked.url, Clicked)) =>
             /\ \E i \in DOMAIN last'.candidates : last'.candidates[i] = last.tabId
             /\ last'.action # "created"
             /\ \A i \in DOMAIN last'.log : last'.log[i].call # "tabs.create" ]_vars

\* a switch without shift focused the tab the switch before it had created,
\* before the creation event of the tab was handled
C17_Witness ==
    /\ last.op = "switch" /\ ~last.shift
    /\ last.action = "focused"
    /\ CreationPending(last.tabId)
    /\ Before(last.favoriteId).lastBoundTabId = last.tabId
    /\ Issued("tabs.create") = {}

\* C18: when a switch without shift creates a tab (no candidate), the tab is
\* asked for and opened inactive if cmd is set, and every tab that was open
\* keeps its active flag; it is asked for and opened active if cmd is not set;
\* in both cases the favorite is bound to the created tab at the time of the
\* switch
C18_BackgroundCreate ==
    (last.op = "switch" /\ ~last.shift /\ last.action = "created") =>
        /\ Candidates = <<>>
        /\ last.tabId \notin DOMAIN last.tabs
        /\ last.tabId \in DOMAIN tabs
        /\ Calls = <<"tabs.create">>
        /\ last.log[1].props = [url |-> Clicked.url, active |-> ~last.cmd,
                                windowId |-> last.window]
        /\ tabs[last.tabId].active = ~last.cmd
        /\ last.cmd => \A id \in DOMAIN last.tabs : tabs[id].active = last.tabs[id].active
        /\ Clicked.lastBoundTabId = last.tabId
        /\ Clicked.lastBoundAt = last.at

\* a switch with cmd created an inactive tab in the window of an active tab and
\* bound the favorite to it
C18_Witness ==
    /\ last.op = "switch" /\ ~last.shift /\ last.cmd
    /\ last.action = "created"
    /\ ~tabs[last.tabId].active
    /\ \E id \in DOMAIN last.tabs :
          /\ tabs[id].windowId = tabs[last.tabId].windowId
          /\ last.tabs[id].active /\ tabs[id].active
    /\ Clicked.lastBoundTabId = last.tabId

\* the cached tabs that are not internal and match the clicked favorite in
\* prefix mode
PrefixCandidateIds ==
    {last.cached[i].id : i \in
        {j \in DOMAIN last.cached :
            /\ ~Falsy(last.cached[j].url)
            /\ ~IsInternal(last.cached[j].url)
            /\ matchesUrl(last.cached[j].url, Clicked.url, MATCH_MODE.prefix,
                          Clicked.matchPattern)}}

\* without preferences, a favorite without a match mode of its own is matched
\* in prefix mode
AbsentMatchesByPrefix ==
    (last.op = "switch" /\ ~last.shift /\ ~state.preferences.present
     /\ Clicked.matchMode = "") =>
        {last.candidates[i] : i \in DOMAIN last.candidates} = PrefixCandidateIds

\* without preferences, only alt makes a switch cycle
AbsentNeverReclicks ==
    (last.op = "switch" /\ ~last.shift /\ ~state.preferences.present /\ ~last.alt) =>
        last.action # "cycled"

\* without preferences, a switch that resolves to a tab of another window has
\* asked for that window to be focused, and it is the current window
AbsentFocusesWindow ==
    (/\ last.op = "switch" /\ ~last.shift /\ ~state.preferences.present
     /\ last.action \in {"focused", "cycled"}
     /\ CachedTab(last.tabId).windowId # last.window) =>
        /\ Issued("windows.update") # {}
        /\ currentWindowId = CachedTab(last.tabId).windowId

\* C19: when the state has no preferences, a switch matches in prefix mode,
\* never cycles on a reclick, and brings the window of the tab it focuses to
\* the front
C19_AbsentPreferences ==
    AbsentMatchesByPrefix /\ AbsentNeverReclicks /\ AbsentFocusesWindow

\* a call of the last switch rejected
CallRejected == \E i \in DOMAIN last.log : last.log[i].rejected

\* C20: when a call of chrome.tabs.create, chrome.windows.update,
\* chrome.tabs.move or chrome.tabs.update rejects during a switch, the switch
\* rejects without an outcome, it issues no call after the one that rejected,
\* and it persists nothing after it: the favorites are as they were when the
\* call was issued, so the clicked favorite is unbound or bound as it was
\* before the switch, and bound to the tab of the failed call only if it was
\* before the switch
C20_HostCallRejects ==
    (last.op = "switch" /\ CallRejected) =>
        /\ last.action = "rejected"
        /\ last.tabId = 0 /\ last.url = NoUrl
        /\ \A i \in DOMAIN last.log : last.log[i].rejected <=> i = Len(last.log)
        /\ state.favorites = last.log[Len(last.log)].favorites
        /\ Clicked.lastBoundTabId \in {0, Before(last.favoriteId).lastBoundTabId}
        /\ \A i \in DOMAIN state.favorites :
              state.favorites[i].id # last.favoriteId =>
                  state.favorites[i] = last.was[i]

\* the window of the tab was brought to the front, then activating the tab
\* rejected, and the favorite, which was not bound, is not bound
C20_Witness ==
    /\ last.op = "switch" /\ last.action = "rejected"
    /\ Calls = <<"windows.update", "tabs.update">>
    /\ last.log[2].rejected
    /\ currentWindowId # last.window
    /\ Before(last.favoriteId).lastBoundTabId = 0
    /\ Clicked.lastBoundTabId = 0

\* the calls of the switch that create a tab or activate one
CreatedOrActivated == Issued("tabs.create") \cup Issued("tabs.update")

\* the binding writes of the switch that name the tab
StoredFor(tabId) == {i \in DOMAIN last.stored : last.stored[i].tabId = tabId}

\* C28: a switch none of whose host calls rejects resolves to 'created',
\* 'focused' or 'cycled' with a tab id; it has issued exactly one call that
\* creates or activates a tab, about that tab, and exactly one binding write
\* that names that tab, on the favorite clicked, which is the binding persisted
\* when it returns (a write that clears a stale binding may come before)
C28_OneOutcome ==
    (last.op = "switch" /\ ~CallRejected) =>
        /\ last.action \in {"created", "focused", "cycled"}
        /\ last.tabId # 0
        /\ Cardinality(CreatedOrActivated) = 1
        /\ \A i \in CreatedOrActivated : last.log[i].arg = last.tabId
        /\ (last.action = "created") = (Issued("tabs.create") # {})
        /\ Cardinality(StoredFor(last.tabId)) = 1
        /\ \A i \in DOMAIN last.stored :
              /\ last.stored[i].favoriteId = last.favoriteId
              /\ last.stored[i].tabId \in {0, last.tabId}
        /\ last.stored[Len(last.stored)].tabId = last.tabId
        /\ Among(state.favorites, last.favoriteId).lastBoundTabId = last.tabId

\* a switch that cleared a stale binding, moved a tab of another window and
\* activated it
C28_Witness ==
    /\ last.op = "switch" /\ ~CallRejected
    /\ last.action = "focused"
    /\ Len(last.stored) = 2 /\ last.stored[1].tabId = 0
    /\ Issued("tabs.move") # {}
    /\ Among(state.favorites, last.favoriteId).lastBoundTabId = last.tabId

-----------------------------------------------------------------------------
(* Claims about stale tab ids, under Spec *)

\* C21: a switch without shift on a favorite bound to a tab that is not open
\* in the browser any more clears that binding and resolves to 'created',
\* 'focused' or 'cycled' on a tab that is open; it does not reject
C21_StaleIdIsAbsent ==
    (/\ last.op = "switch" /\ ~last.shift
     /\ Before(last.favoriteId).lastBoundTabId # 0
     /\ Before(last.favoriteId).lastBoundTabId \notin DOMAIN last.tabs) =>
        /\ last.action \in {"created", "focused", "cycled"}
        /\ last.tabId \in DOMAIN tabs
        /\ Clicked.lastBoundTabId = last.tabId

-----------------------------------------------------------------------------
(* Claims about tabs on internal pages, under SpecSwitch *)

\* the ids of the tabs that were cached when the switch started
WasCached == {last.cached[i].id : i \in DOMAIN last.cached}

-----------------------------------------------------------------------------
(* Claims about the binding fields, under Spec *)

\* the favorites other than the one the last switch was on
Others == {f \in FavoriteIds : f # last.favoriteId}

\* C38: a switch on a favorite leaves lastBoundTabId and lastBoundAt of every
\* other favorite as they were, also when another favorite is bound to the tab
\* the switch focuses
C38_OthersUntouched ==
    last.op = "switch" =>
        \A f \in Others :
            /\ Among(state.favorites, f).lastBoundTabId = Before(f).lastBoundTabId
            /\ Among(state.favorites, f).lastBoundAt = Before(f).lastBoundAt

\* a switch focused a tab another favorite was bound to, and bound its own
\* favorite to it
C38_Witness ==
    /\ last.op = "switch" /\ last.action \in {"focused", "cycled"}
    /\ Clicked.lastBoundTabId = last.tabId
    /\ Before(last.favoriteId).lastBoundTabId # last.tabId
    /\ \E f \in Others : Before(f).lastBoundTabId = last.tabId

\* C39: after any sequence of switches and of sweeps for closed and navigated
\* tabs, from favorites that start unbound, every favorite has
\* lastBoundTabId = null exactly when lastBoundAt = null
C39_BoundFieldsTogether ==
    \A i \in DOMAIN state.favorites :
        state.favorites[i].lastBoundTabId = 0 <=> state.favorites[i].lastBoundAt = 0

\* a sweep has just cleared the binding of one favorite while another favorite
\* is bound
C39_Witness ==
    /\ last.op \in {"removed", "updated"}
    /\ \E f, g \in FavoriteIds :
          /\ Before(f).lastBoundTabId = last.tabId
          /\ Before(f).lastBoundAt # 0
          /\ Among(state.favorites, f).lastBoundTabId = 0
          /\ Among(state.favorites, f).lastBoundAt = 0
          /\ Among(state.favorites, g).lastBoundTabId # 0
          /\ Among(state.favorites, g).lastBoundAt # 0

-----------------------------------------------------------------------------
(* Claims about the cache as a replica of the browser, under Spec *)

\* the cached tab agrees with the open tab of the same id
Agrees(id) ==
    LET cached == TabCacheGet(tabCache, id)
    IN  /\ cached.url = tabs[id].url
        /\ cached.windowId = tabs[id].windowId
        /\ cached.active = tabs[id].active

\* C23: once every pending tab event has been handled (a switch is one step
\* here, so none is in flight), the cache holds exactly the ids of the open
\* tabs, each with the url, the window and the active flag of the open tab
C23_ReplicaAgrees ==
    events = <<>> =>
        /\ CachedIds(tabCache) = DOMAIN tabs
        /\ \A id \in DOMAIN tabs : Agrees(id)

\* the cached tabs of window w whose active flag is set
CachedActive(w) ==
    {id \in CachedIds(tabCache) :
        /\ TabCacheGet(tabCache, id).windowId = w
        /\ TabCacheGet(tabCache, id).active}

\* C33: in every reachable state the cache holds at most one tab with
\* active = true per window, also right after a switch created or activated
\* a tab
C33_OneActivePerWindow ==
    \A w \in Wins : Cardinality(CachedActive(w)) <= 1

-----------------------------------------------------------------------------
(* Claims about interleaved invocations, under SpecRace *)

\* every invocation has been dispatched, all on the same favorite, and the user
\* has done nothing else (no tab was closed)
SameTarget ==
    /\ \A r \in Runs : runs[r].pc # "idle" /\ runs[r].favorite.id = runs[1].favorite.id
    /\ userActions = MaxRuns

AllDone == \A r \in Runs : runs[r].pc = "done"

\* C22: invocations of switch on the same favorite that interleave at their
\* awaits never reject; when all have returned, each has returned 'created',
\* 'focused' or 'cycled' with an open tab, and the favorite is persisted as
\* bound to the tab id of the binding write that was applied to the storage
\* last, which is the tab of the invocation that made that write
C22_LastWriteWins ==
    SameTarget =>
        /\ \A r \in Runs : runs[r].pc # "rejected"
        /\ AllDone =>
              /\ \A r \in Runs : /\ runs[r].action \in {"created", "focused", "cycled"}
                                 /\ runs[r].target.id \in DOMAIN tabs
              /\ writes # <<>>
              /\ writes[Len(writes)].favoriteId = runs[1].favorite.id
              /\ writes[Len(writes)].tabId = runs[writes[Len(writes)].run].target.id
              /\ Among(storage.favorites, runs[1].favorite.id).lastBoundTabId
                    = writes[Len(writes)].tabId

\* two invocations on the same favorite returned different tabs, and the one
\* dispatched first wrote its binding last
C22_Witness ==
    /\ SameTarget /\ AllDone
    /\ runs[1].target.id # runs[2].target.id
    /\ writes[Len(writes)].run = 1
    /\ \E i \in DOMAIN writes : writes[i].run = 2 /\ writes[i].tabId = runs[2].target.id
    /\ Among(storage.favorites, runs[1].favorite.id).lastBoundTabId = runs[1].target.id

\* every invocation has been dispatched, each on another favorite, and the
\* user has done nothing else (no tab was closed)
DifferentTargets ==
    /\ \A r \in Runs : runs[r].pc # "idle"
    /\ \A q, r \in Runs : q # r => runs[q].favorite.id # runs[r].favorite.id
    /\ userActions = MaxRuns

\* C35: binding writes for different favorites that interleave are both
\* preserved: when every invocation has returned, each favorite is persisted as
\* bound to the tab its invocation wrote
C35_BothPreserved ==
    (DifferentTargets /\ AllDone) =>
        \A r \in Runs :
            Among(storage.favorites, runs[r].favorite.id).lastBoundTabId
                = runs[r].target.id

\* the tabs the invocations created
CreatedByRuns == {runs[r].target.id : r \in {q \in Runs : runs[q].action = "created"}}

\* C36: two invocations without shift on the same favorite that interleave
\* while no tab matches it create at most one tab: when both have returned,
\* one has created a tab and the other has focused that tab
C36_OneTabCreated ==
    (/\ SameTarget /\ AllDone
     /\ \A r \in Runs : ~runs[r].shift
     /\ \E r \in Runs : runs[r].action = "created") =>
        /\ Cardinality(CreatedByRuns) <= 1
        /\ \A r \in Runs : runs[r].target.id \in CreatedByRuns

\* no invocation is in flight, no tab event is pending and state is the
\* stored state
Quiescent ==
    /\ \A r \in Runs : runs[r].pc \in {"idle", "done", "rejected"}
    /\ events = <<>>
    /\ state = storage

\* an invocation has returned a tab that has been closed since
ReturnedTabClosed ==
    \E r \in Runs : runs[r].pc = "done" /\ runs[r].target.id \notin DOMAIN tabs

\* C37: once a switch and the close of the tab it focused or created have both
\* been handled, in whatever order their steps ran, every favorite whose
\* lastBoundTabId is not null is bound to a tab that is in the cache
C37_NoBindingToClosedTab ==
    (Quiescent /\ ReturnedTabClosed) =>
        \A i \in DOMAIN storage.favorites :
            storage.favorites[i].lastBoundTabId # 0 =>
                TabCacheGet(tabCache, storage.favorites[i].lastBoundTabId) # NoTab

-----------------------------------------------------------------------------
(* SpecMatcher: canonicalizeUrl and matchesUrl applied to a pair of urls *)

MatcherQueries == {<<>>,
                   << [k |-> "utm_source", v |-> "x"] >>,
                   << [k |-> "utm_source", v |-> "y"] >>,
                   << [k |-> "utm_id", v |-> "x"] >>,
                   << [k |-> "utm_id", v |-> "y"] >>,
                   << [k |-> "q", v |-> "x"] >>,
                   << [k |-> "q", v |-> "x"], [k |-> "ref", v |-> "x"] >>,
                   << [k |-> "q", v |-> "x"], [k |-> "ref", v |-> "y"] >>}

\* the urls the two functions are given: strings that parse, one that does not
MatcherUrls ==
    {Url("https:", host, path, query, hash) :
        host \in {"m.com", "M.COM"},
        path \in {<<"/">>, <<"/", "m">>, <<"/", "m", "/">>, <<"/", "m", "/", "/">>,
                  <<"/", "m", "/", "a">>},
        query \in MatcherQueries,
        hash \in {"", "s"}}
    \cup {RawUrl("x")}

\* url and other are the two urls given; canonical and canonicalOther the
\* strings canonicalizeUrl returned for them, again the string it returned for
\* canonical; matched what matchesUrl(url, other, mode) returned
InitMatcher ==
    /\ \E url, other \in MatcherUrls :
          call = [op |-> "none", url |-> url, other |-> other, canonical |-> <<>>,
                  canonicalOther |-> <<>>, again |-> <<>>, mode |-> "",
                  matched |-> FALSE]
    /\ tabCache = NewTabCache
    /\ ncalls = 0
    /\ state = NoState
    /\ recentClicks = EmptyMap
    /\ tabs = EmptyMap
    /\ nextTabId = 1
    /\ currentWindowId = 1
    /\ events = <<>>
    /\ now = StartTime
    /\ userActions = 0
    /\ last = NoLast
    /\ scenario = NoScenario
    /\ NoRace

\* canonicalizeUrl(url) and canonicalizeUrl(other)
Canonicalizes ==
    /\ call.op = "none"
    /\ call' = [call EXCEPT !.op = "canonicalizeUrl",
                            !.canonical = Str(canonicalizeUrl(call.url)),
                            !.canonicalOther = Str(canonicalizeUrl(call.other))]
    /\ ncalls' = ncalls + 1
    /\ UNCHANGED <<tabCache, sysVars>>

\* canonicalizeUrl(canonicalizeUrl(url)): the string returned is parsed again
CanonicalizesAgain ==
    /\ call.op = "canonicalizeUrl"
    /\ call' = [call EXCEPT !.op = "canonicalizeUrl again",
                            !.again = Str(canonicalizeUrl(ParseUrl(call.canonical)))]
    /\ ncalls' = ncalls + 1
    /\ UNCHANGED <<tabCache, sysVars>>

\* matchesUrl(url, other, mode): url is the tab's, other the favorite's
CallMatches(mode) ==
    /\ call.op = "none"
    /\ call' = [call EXCEPT !.op = "matchesUrl", !.mode = mode,
                            !.matched = matchesUrl(call.url, call.other, mode, NoPattern)]
    /\ ncalls' = ncalls + 1
    /\ UNCHANGED <<tabCache, sysVars>>

NextMatcher ==
    \/ Canonicalizes
    \/ CanonicalizesAgain
    \/ \E mode \in {MATCH_MODE.exact, MATCH_MODE.prefix, MATCH_MODE.domain} :
          CallMatches(mode)

SpecMatcher == InitMatcher /\ [][NextMatcher]_vars

-----------------------------------------------------------------------------
(* Claims about the matcher, under SpecMatcher *)

\* C24: canonicalizeUrl applied to the string canonicalizeUrl returned gives
\* that string again, for every url, paths ending in several slashes included
C24_Idempotent ==
    call.op = "canonicalizeUrl again" => call.again = call.canonical

\* u1 and u2 are the same url but for the values of the query parameters whose
\* name is in names
DifferInValuesOf(names, u1, u2) ==
    /\ Parses(u1) /\ Parses(u2)
    /\ u1.scheme = u2.scheme /\ u1.host = u2.host /\ u1.path = u2.path
    /\ u1.hash = u2.hash
    /\ Len(u1.query) = Len(u2.query)
    /\ \A i \in DOMAIN u1.query :
          /\ u1.query[i].k = u2.query[i].k
          /\ u1.query[i].v # u2.query[i].v => u1.query[i].k \in names

\* the names of the list in canonicalizeUrl, and the names utm_* stands for
\* among the parameters of MatcherQueries
ListedNames == {"utm_source", "utm_medium", "utm_campaign", "utm_term", "utm_content",
                "fbclid", "gclid", "msclkid", "mc_cid", "mc_eid", "_ga", "_gl",
                "ref", "source"}
UtmNames == {"utm_source", "utm_id"}

\* C25 as stated: two urls that differ only in the values of parameters named
\* utm_* or by the rest of the list canonicalize to the same string
C25_Original ==
    (/\ call.op = "canonicalizeUrl"
     /\ DifferInValuesOf(ListedNames \cup UtmNames, call.url, call.other)) =>
        call.canonical = call.canonicalOther

\* C25: two urls that differ only in the values of query parameters named in
\* the list of canonicalizeUrl (utm_source, utm_medium, utm_campaign, utm_term,
\* utm_content, fbclid, gclid, msclkid, mc_cid, mc_eid, _ga, _gl, ref, source)
\* canonicalize to the same string
C25_TrackingValuesIgnored ==
    (/\ call.op = "canonicalizeUrl"
     /\ DifferInValuesOf(ListedNames, call.url, call.other)) =>
        call.canonical = call.canonicalOther

\* two urls with another parameter each, whose ref values differ
C25_Witness ==
    /\ call.op = "canonicalizeUrl"
    /\ DifferInValuesOf(ListedNames, call.url, call.other)
    /\ \E i \in DOMAIN call.url.query :
          /\ call.url.query[i].k = "ref"
          /\ call.url.query[i].v # call.other.query[i].v
    /\ Len(call.url.query) = 2
    /\ call.canonical = call.canonicalOther

\* the target's path is a strict prefix of the tab's path, scheme and host
\* being the same
StrictPathPrefix(tab, target) ==
    /\ Parses(tab) /\ Parses(target)
    /\ tab.scheme = target.scheme /\ tab.host = target.host
    /\ Len(target.path) < Len(tab.path)
    /\ SubSeq(tab.path, 1, Len(target.path)) = target.path

\* C26 as stated: prefix mode matches whenever the target's path is a strict
\* prefix of the tab's, whatever query and fragment the two urls carry
C26_Original ==
    (/\ call.op = "matchesUrl" /\ call.mode = MATCH_MODE.prefix
     /\ StrictPathPrefix(call.url, call.other)) =>
        call.matched

\* the target carries no fragment and no query parameter but those of the list
\* in canonicalizeUrl, which are stripped
BareTarget(target) ==
    /\ target.hash = ""
    /\ \A i \in DOMAIN target.query : target.query[i].k \in ListedNames

\* C26: prefix mode matches whenever the target's path is a strict prefix of
\* the tab's, scheme and host being the same, and the target carries no
\* fragment and no query parameter that canonicalizeUrl keeps, whatever query
\* and fragment the tab carries
C26_PrefixMatches ==
    (/\ call.op = "matchesUrl" /\ call.mode = MATCH_MODE.prefix
     /\ StrictPathPrefix(call.url, call.other)
     /\ BareTarget(call.other)) =>
        call.matched

\* a tab with a query and a fragment under a target that ends in a slash and
\* carries a tracking parameter
C26_Witness ==
    /\ call.op = "matchesUrl" /\ call.mode = MATCH_MODE.prefix
    /\ StrictPathPrefix(call.url, call.other)
    /\ BareTarget(call.other)
    /\ call.other.path = <<"/", "m", "/">> /\ call.other.query # <<>>
    /\ call.url.hash # "" /\ call.url.query # <<>>
    /\ call.matched

-----------------------------------------------------------------------------
(* SpecPanel: the side panel's click handler next to the service worker's   *)
(* listeners. Both read and write 'state.v1'; every write reaches the other *)
(* context through chrome.storage.onChanged, so state stands for both.      *)

\* sidepanel.js matchesUrl: the host names are equal
matchesHostname(tabUrl, targetUrl) ==
    /\ Parses(tabUrl) /\ Parses(targetUrl)
    /\ ToLowerCase(tabUrl.host) = ToLowerCase(targetUrl.host)

\* updateFavoriteBinding(favId, tabId): lastBoundAt is null with a null tabId
updateFavoriteBinding(st, favId, tabId, t) ==
    updateFavorite(st, favId, tabId, IF tabId # 0 THEN t ELSE 0)

\* the side panel's chrome.tabs.onRemoved listener
panelOnRemoved(st, closedTabId) ==
    LET RECURSIVE Sweep(_, _)
        Sweep(cur, favorites) ==
            IF favorites = <<>> THEN cur
            ELSE Sweep(IF Head(favorites).lastBoundTabId = closedTabId
                       THEN updateFavoriteBinding(cur, Head(favorites).id, 0, 0)
                       ELSE cur,
                       Tail(favorites))
    IN  IF ~st.loaded THEN st ELSE Sweep(st, st.favorites)

\* scenario[f] is the tab the click handler bound favorite f to, as long as
\* that tab has not been closed since (0: none)
InitPanel ==
    /\ \E open \in InitialTabs : InitWith(open)
    /\ scenario = [f \in FavoriteIds |-> 0]
    /\ NoRace

\* tabs.find over chrome.tabs.query({currentWindow: true}): the tabs of the
\* window whose host name is the favorite's
panelMatching(fav) ==
    {id \in DOMAIN tabs : /\ tabs[id].windowId = currentWindowId
                          /\ ~Falsy(tabs[id].url)
                          /\ matchesHostname(tabs[id].url, fav.url)}

\* what a click leaves alone, and what it records
ClickFrame(favoriteId, shift, action, tabId) ==
    /\ last' = [NoLast EXCEPT !.op = "click", !.favoriteId = favoriteId,
                              !.shift = shift, !.action = action, !.tabId = tabId,
                              !.at = now, !.was = state.favorites,
                              !.tabs = tabs, !.window = currentWindowId]
    /\ UNCHANGED <<tabCache, recentClicks, now, call, ncalls>>

\* chrome.tabs.create({url}) and updateFavoriteBinding(fav.id, newTab.id)
ClickCreates(st, fav, shift) ==
    /\ nextTabId <= MaxTabId
    /\ Len(events) < MaxEvents
    /\ LET newTab == Tab(nextTabId, fav.url, currentWindowId, TRUE, now)
       IN  /\ tabs' = BrowserCreate(tabs, newTab)
           /\ events' = Append(events, TabEvent("created", newTab.id, NoUrl, newTab))
           /\ state' = updateFavoriteBinding(st, fav.id, newTab.id, now)
           /\ scenario' = [scenario EXCEPT ![fav.id] = newTab.id]
           /\ ClickFrame(fav.id, shift, "created", newTab.id)
    /\ nextTabId' = nextTabId + 1
    /\ UNCHANGED currentWindowId

\* handleClickFavorite(fav, null, event) with openBehavior 'smart-switch';
\* found is the tab tabs.find returns when several match (the order of the tab
\* strip is not kept here)
handleClickFavorite(favoriteId, shift, found) ==
    LET fav == FavoriteById(state, favoriteId)
    IN  /\ state.loaded
        /\ IF shift THEN ClickCreates(state, fav, shift)
           ELSE IF fav.lastBoundTabId # 0 /\ fav.lastBoundTabId \in DOMAIN tabs
           THEN /\ tabs' = BrowserActivate(tabs, fav.lastBoundTabId, now)
                /\ currentWindowId' = tabs[fav.lastBoundTabId].windowId
                /\ ClickFrame(favoriteId, shift, "focused", fav.lastBoundTabId)
                /\ UNCHANGED <<state, nextTabId, events, scenario>>
           ELSE LET cleared == IF fav.lastBoundTabId # 0
                               THEN updateFavoriteBinding(state, favoriteId, 0, 0)
                               ELSE state
                IN  IF panelMatching(fav) # {}
                    THEN /\ found \in panelMatching(fav)
                         /\ tabs' = BrowserActivate(tabs, found, now)
                         /\ state' = updateFavoriteBinding(cleared, favoriteId, found, now)
                         /\ scenario' = [scenario EXCEPT ![favoriteId] = found]
                         /\ ClickFrame(favoriteId, shift, "focused", found)
                         /\ UNCHANGED <<nextTabId, currentWindowId, events>>
                    ELSE ClickCreates(cleared, fav, shift)

\* the browser delivers the oldest pending tab event to the listeners of the
\* service worker and of the side panel
PanelDelivers ==
    /\ events # <<>>
    /\ LET e == Head(events)
           worker == CASE e.type = "removed" -> clearBindingsForTab(state, e.tabId)
                       [] e.type = "updated" /\ ~Falsy(e.changeUrl) ->
                             revalidateBindingsForTab(state, e.tabId, e.tab)
                       [] OTHER -> state
       IN  /\ tabCache' = CASE e.type = "created" -> TabCacheAdd(tabCache, e.tab)
                            [] e.type = "removed" -> TabCacheRemove(tabCache, e.tabId)
                            [] OTHER -> TabCacheUpdate(tabCache, e.tabId, e.changeUrl, e.tab)
           /\ state' = IF e.type = "removed" THEN panelOnRemoved(worker, e.tabId)
                       ELSE worker
           /\ last' = [NoLast EXCEPT !.op = e.type, !.tabId = e.tabId,
                                     !.url = e.tab.url, !.changed = ~Falsy(e.changeUrl),
                                     !.at = now, !.was = state.favorites]
    /\ events' = Tail(events)
    /\ UNCHANGED <<recentClicks, tabs, nextTabId, currentWindowId, now, call, ncalls,
                   scenario>>

\* the tab is closed: no favorite is held to it any more
Released(id) == [f \in DOMAIN scenario |-> IF scenario[f] = id THEN 0 ELSE scenario[f]]

PanelUserActs ==
    /\ userActions < MaxUserActions
    /\ userActions' = userActions + 1
    /\ UNCHANGED raceVars

NextPanel ==
    \/ \E favoriteId \in FavoriteIds, shift \in BOOLEAN, found \in 0..MaxTabId :
          PanelUserActs /\ handleClickFavorite(favoriteId, shift, found)
    \/ PanelDelivers /\ UNCHANGED <<userActions, raceVars>>
    \/ \E id \in 1..MaxTabId, heir \in 0..MaxTabId :
          PanelUserActs /\ UserClosesTab(id, heir) /\ scenario' = Released(id)
    \/ \E id \in 1..MaxTabId, url \in UserUrls :
          PanelUserActs /\ UserNavigates(id, url) /\ UNCHANGED scenario
    \/ \E id \in 1..MaxTabId :
          PanelUserActs /\ UserActivates(id) /\ UNCHANGED scenario

SpecPanel == InitPanel /\ [][NextPanel]_vars

-----------------------------------------------------------------------------
(* Claims about the side panel, under SpecPanel *)

\* the step is a click without shift on favorite f
PlainClick(f) ==
    /\ userActions' = userActions + 1
    /\ last'.op = "click" /\ last'.favoriteId = f /\ ~last'.shift

\* C27: a click without shift on a favorite that the click handler bound to a
\* tab which has not been closed since focuses that tab, whatever url the tab
\* is at by now, opens no tab and leaves the favorite bound to it
C27_BoundTabKept ==
    [][\A f \in FavoriteIds :
          (PlainClick(f) /\ scenario[f] # 0) =>
              /\ last'.action = "focused" /\ last'.tabId = scenario[f]
              /\ DOMAIN tabs' = DOMAIN tabs
              /\ tabs'[scenario[f]].active
              /\ Among(state'.favorites, f).lastBoundTabId = scenario[f]]_vars

-----------------------------------------------------------------------------
(* SpecHelpers: findMatches, isValidBinding, detectReclick and focusTab     *)
(* called one by one, with and without a state                              *)

MaxHelperCalls == 2
MaxHelperTicks == 4
HelperTickMs == 500

\* state.preferences: absent, or with cycling on or off and a cooldown that
\* is absent (0), shorter or longer than the default
HelperPreferences ==
    {NoPreferences} \cup
    {[DefaultPreferences EXCEPT !.enableCycleOnReclick = enabled,
                                !.cycleCooldown = cooldown] :
        enabled \in BOOLEAN, cooldown \in {0, 1000, 2000}}

\* what getState() returns: null, or a state
HelperStates ==
    {NoState} \cup
    {[loaded |-> TRUE, preferences |-> preferences, favorites |-> InitialFavorites] :
        preferences \in HelperPreferences}

\* result: what the helper returned (the ids of the tabs, for findMatches);
\* lastClick: recentClicks before the call; log: the host calls it issued
NoHelperCall == [op |-> "none", favoriteId |-> "", tabId |-> 0, result |-> FALSE,
                 found |-> <<>>, lastClick |-> <<>>, at |-> 0, log |-> <<>>,
                 window |-> 0, tabs |-> <<>>]

InitHelpers ==
    /\ \E open \in StartTabs, st \in HelperStates :
          /\ state = st
          /\ tabs = [i \in 1..Len(open) |-> open[i]]
          /\ tabCache = Populate(NewTabCache, open)
          /\ nextTabId = Len(open) + 1
    /\ recentClicks = [f \in FavoriteIds |-> 0]
    /\ currentWindowId = 1
    /\ events = <<>>
    /\ now = StartTime
    /\ userActions = 0
    /\ last = NoLast
    /\ scenario = NoScenario
    /\ NoRace
    /\ call = NoHelperCall
    /\ ncalls = 0

\* what a call of a helper leaves alone
HelperFrame ==
    /\ ncalls < MaxHelperCalls
    /\ ncalls' = ncalls + 1
    /\ UNCHANGED <<tabCache, state, nextTabId, events, now, userActions, last, scenario,
                   raceVars>>

\* the favorite object the caller holds
Held(favoriteId) == Among(InitialFavorites, favoriteId)

CallFindMatches(favoriteId) ==
    /\ HelperFrame
    /\ LET found == findMatches(tabCache, state, Held(favoriteId), currentWindowId)
       IN  call' = [NoHelperCall EXCEPT !.op = "findMatches", !.favoriteId = favoriteId,
                                        !.found = [i \in 1..Len(found) |-> found[i].id],
                                        !.at = now]
    /\ UNCHANGED <<recentClicks, tabs, currentWindowId>>

CallIsValidBinding(tabId, favoriteId) ==
    /\ HelperFrame
    /\ call' = [NoHelperCall EXCEPT
                  !.op = "isValidBinding", !.favoriteId = favoriteId, !.tabId = tabId,
                  !.result = isValidBinding(state, TabCacheGet(tabCache, tabId),
                                            Held(favoriteId)),
                  !.at = now]
    /\ UNCHANGED <<recentClicks, tabs, currentWindowId>>

CallDetectReclick(favoriteId) ==
    /\ HelperFrame
    /\ call' = [NoHelperCall EXCEPT
                  !.op = "detectReclick", !.favoriteId = favoriteId,
                  !.result = detectReclick(state, recentClicks, favoriteId, now),
                  !.lastClick = recentClicks, !.at = now]
    /\ recentClicks' = detectReclickRecords(state, recentClicks, favoriteId, now)
    /\ UNCHANGED <<tabs, currentWindowId>>

\* focusTab on a cached tab
CallFocusTab(tabId, favoriteId) ==
    /\ HelperFrame
    /\ TabCacheGet(tabCache, tabId) # NoTab
    /\ LET m == focusTab(Machine, TabCacheGet(tabCache, tabId), Held(favoriteId), now,
                         0, "")
       IN  /\ tabs' = m.tabs
           /\ currentWindowId' = m.currentWindowId
           /\ call' = [NoHelperCall EXCEPT
                         !.op = "focusTab", !.favoriteId = favoriteId, !.tabId = tabId,
                         !.result = ~Rejected(m), !.log = m.log, !.at = now,
                         !.window = currentWindowId, !.tabs = tabs]
    /\ UNCHANGED recentClicks

\* time passes
HelperTick ==
    /\ now < StartTime + MaxHelperTicks * HelperTickMs
    /\ now' = now + HelperTickMs
    /\ UNCHANGED <<tabCache, state, recentClicks, tabs, nextTabId, currentWindowId,
                   events, userActions, last, scenario, raceVars, call, ncalls>>

NextHelpers ==
    \/ \E favoriteId \in FavoriteIds : CallFindMatches(favoriteId)
    \/ \E tabId \in 0..MaxTabId, favoriteId \in FavoriteIds :
          CallIsValidBinding(tabId, favoriteId)
    \/ \E favoriteId \in FavoriteIds : CallDetectReclick(favoriteId)
    \/ \E tabId \in 1..MaxTabId, favoriteId \in FavoriteIds :
          CallFocusTab(tabId, favoriteId)
    \/ HelperTick

SpecHelpers == InitHelpers /\ [][NextHelpers]_vars

-----------------------------------------------------------------------------
(* Claims about the helpers of the switcher, under SpecHelpers *)

\* the click before this detectReclick call on the same favorite (0: none)
Previous == call.lastClick[call.favoriteId]

CyclingEnabled ==
    state.loaded /\ state.preferences.present /\ state.preferences.enableCycleOnReclick

\* the cooldown of the preferences, 1500 ms when they give none
Cooldown ==
    IF state.preferences.cycleCooldown = 0 THEN 1500 ELSE state.preferences.cycleCooldown

\* C29: detectReclick(t) returns true exactly when cycling is enabled, a
\* click on t is recorded and less than the cooldown has passed since (1500 ms
\* when the preferences give none); a click exactly one cooldown later, or
\* after a click on another favorite only, is not a reclick
C29_ReclickExact ==
    call.op = "detectReclick" =>
        (call.result <=> /\ CyclingEnabled
                         /\ Previous # 0
                         /\ call.at - Previous < Cooldown)

\* a reclick 1000 ms after the click, with no cooldown in the preferences,
\* although the other favorite was never clicked
C29_Witness ==
    /\ call.op = "detectReclick" /\ call.result
    /\ state.preferences.cycleCooldown = 0
    /\ call.at - Previous = 1000
    /\ \E f \in FavoriteIds : call.lastClick[f] = 0

\* the tab focusTab was given is open
FocusedOpenTab == call.tabId \in DOMAIN call.tabs

\* C30: when getState() returns null, findMatches returns [], isValidBinding
\* and detectReclick return false, and focusTab on a tab that is open issues
\* chrome.tabs.update(tab.id, {active: true}) and nothing else, and resolves
C30_NoState ==
    ~state.loaded =>
        /\ call.op = "findMatches" => call.found = <<>>
        /\ call.op = "isValidBinding" => ~call.result
        /\ call.op = "detectReclick" => ~call.result /\ recentClicks = call.lastClick
        /\ (call.op = "focusTab" /\ FocusedOpenTab) =>
              /\ call.result
              /\ Len(call.log) = 1
              /\ call.log[1].call = "tabs.update"
              /\ call.log[1].arg = call.tabId
              /\ call.log[1].props = [active |-> TRUE]
              /\ currentWindowId = call.window
              /\ \A id \in DOMAIN tabs : tabs[id].windowId = call.tabs[id].windowId

\* without a state, focusTab has activated a tab of the other window
C30_Witness ==
    /\ ~state.loaded
    /\ call.op = "focusTab" /\ FocusedOpenTab
    /\ call.tabs[call.tabId].windowId # call.window
    /\ ~call.tabs[call.tabId].active
    /\ tabs[call.tabId].active

-----------------------------------------------------------------------------
(* SpecRank: rankMatches applied to a list of matching tabs *)

\* tab.lastAccessed: absent (0), or a time in ms; the last two are more than
\* 100 000 000 ms (some 28 hours) after the first two
RankTimes == {0, 1000, 1001, 100001000, 100001001}

\* the lists of up to three tabs, the tab at place i with id i
RankTabs ==
    UNION {[1..n -> [url : {UrlMail}, windowId : Wins, active : {FALSE},
                     lastAccessed : RankTimes]] : n \in 1..3}

\* ranked: the ids of the tabs in the order rankMatches returned them
InitRank ==
    /\ \E given \in RankTabs :
          call = [op |-> "none", mode |-> "", ranked |-> <<>>,
                  tabs |-> [i \in DOMAIN given |->
                              Tab(i, given[i].url, given[i].windowId, given[i].active,
                                  given[i].lastAccessed)]]
    /\ currentWindowId \in Wins
    /\ tabCache = NewTabCache
    /\ ncalls = 0
    /\ state = NoState
    /\ recentClicks = EmptyMap
    /\ tabs = EmptyMap
    /\ nextTabId = 1
    /\ events = <<>>
    /\ now = StartTime
    /\ userActions = 0
    /\ last = NoLast
    /\ scenario = NoScenario
    /\ NoRace

CallRankMatches(mode) ==
    /\ call.op = "none"
    /\ LET ranked == rankMatches(call.tabs, currentWindowId, UrlMail, mode)
       IN  call' = [call EXCEPT !.op = "rankMatches", !.mode = mode,
                                !.ranked = [i \in DOMAIN ranked |-> ranked[i].id]]
    /\ ncalls' = ncalls + 1
    /\ UNCHANGED <<tabCache, sysVars>>

NextRank ==
    \E mode \in {MATCH_MODE.exact, MATCH_MODE.prefix, MATCH_MODE.domain,
                 MATCH_MODE.pattern} : CallRankMatches(mode)

SpecRank == InitRank /\ [][NextRank]_vars

-----------------------------------------------------------------------------
(* Claims about the ranking, under SpecRank *)

\* the tab rankMatches put at place i
Ranked(i) == call.tabs[call.ranked[i]]

InCurrent(tab) == tab.windowId = currentWindowId

\* C32: rankMatches returns its input in another order, every tab of the
\* current window before every tab of another window whatever the lastAccessed
\* values; among the tabs of the current window, and among the others, a tab
\* accessed later comes first and tabs accessed at the same time keep the
\* order of the input
C32_CurrentWindowFirst ==
    call.op = "rankMatches" =>
        /\ Len(call.ranked) = Len(call.tabs)
        /\ {call.ranked[i] : i \in DOMAIN call.ranked} = DOMAIN call.tabs
        /\ \A i, j \in DOMAIN call.ranked :
              i < j =>
                 /\ ~(~InCurrent(Ranked(i)) /\ InCurrent(Ranked(j)))
                 /\ InCurrent(Ranked(i)) = InCurrent(Ranked(j)) =>
                       \/ Ranked(i).lastAccessed > Ranked(j).lastAccessed
                       \/ /\ Ranked(i).lastAccessed = Ranked(j).lastAccessed
                          /\ call.ranked[i] < call.ranked[j]

=============================================================================
